---- MODULE Spec2Model ----
(***************************************************************************)
(* Model of the post-deployment verification flow of the smart-contracts   *)
(* deployment tool:                                                        *)
(*   - TokenDeployer.deploy / attemptVerification / getApiKeyForChain      *)
(*     (src/src/deploy.js)                                                 *)
(*   - ContractVerifier.getApiEndpoint / verifyContract /                  *)
(*     checkVerificationStatus (src/src/ContractVerifier.js)               *)
(*   - ContractCompiler.compile / universalCompile (src/src/compile.js)    *)
(*   - VerificationManager.getMetadataSectionLength / extractMetadata /    *)
(*     inferCompilerVersion (src/unnamed/part_001)                         *)
(*                                                                         *)
(* Spec     : one deploy() call, one action per stretch of code between    *)
(*            two suspension points (await of a timer or a network call).  *)
(* SpecMeta : the pure bytecode metadata decoder applied to bounded hex    *)
(*            strings.                                                     *)
(* SpecVM   : one VerificationManager.verifyContract call; the four read   *)
(*            calls of verifyContractFunctionality settle in any order.    *)
(***************************************************************************)
EXTENDS Integers, Sequences, FiniteSets, TLC

VARIABLES
    pc,              \* position of the single deploy() invocation
    explorersFile,   \* state of ./config/explorers.json
    networkEntry,    \* what getNetworks() holds for the chain id
    buildArtifact,   \* ./build/Token.json readable and parseable
    sourcesPresent,  \* which of Token.sol and the five library sources are readable
    encodable,       \* abiCoder.encode accepts tokenConfig's values
    deploymentFile,  \* content of ./config/deployment.json
    deployResult,    \* what deploy() gave its caller
    apiKey,          \* attemptVerification: const apiKey
    apiUrl,          \* verifyContract: const apiUrl
    constructorArgs, \* verifyContract: const constructorArgs
    retryCount,      \* verifyContract: let retryCount
    response,        \* verifyContract: let response
    guid,            \* checkVerificationStatus: parameter guid
    i,               \* checkVerificationStatus: loop variable i
    statusData,      \* checkVerificationStatus: const statusData
    verified,        \* value returned by verifyContract
    outcome,         \* return site reached by the verification attempt
    report,          \* what attemptVerification printed for the user
    escaped,         \* an exception left verifyContract
    graceWaits,      \* 15 s timers started
    submissions,     \* submitVerification calls issued
    backoffs,        \* 10 s timers started
    pollWaits,       \* 5 s timers started
    polls,           \* status polls issued
    polledGuid,      \* guid carried by the last status poll
    submitLog,       \* submission responses received, in order
    pendingSeen,     \* status-poll responses that said 'Pending in queue'
    netFailure,      \* where a network call threw: "none", "submit", "poll"
    bytecode,        \* decoder input: sequence of characters
    metadata,        \* extractMetadata(bytecode)
    decoded,         \* the decoder has been applied to bytecode
    prefixedMetadata, \* extractMetadata('0x' + bytecode)
    compilerVersion, \* inferCompilerVersion(bytecode)
    prefixedVersion, \* inferCompilerVersion('0x' + bytecode)
    tokenConfig,     \* deploy(tokenConfig, ...): name, symbol, decimals, totalSupply
    compilePath,     \* how compile() obtained the artifact that is deployed
    artifactOptimizer, \* optimizer settings the deployed bytecode was compiled with
    deployedArgs,    \* deploy(): const constructorArgs, passed to factory.deploy
    payload,         \* verifyContract: const verificationData
    vmPc,            \* position of the VerificationManager.verifyContract call
    deployedCode,    \* provider.getCode result: the code kept, and its length
    calls,           \* the four read calls: pending, fulfilled or rejected
    settleOrder,     \* names of the settled calls, in completion order
    allPromise,      \* the Promise.all over the four calls
    functionality,   \* value returned by verifyContractFunctionality
    raised,          \* an exception left verifyContractFunctionality
    verificationResult, \* verifyContract: const verificationResult
    reportStatus,    \* generateReport(verificationResult).status
    activeWallet,    \* index.js: this.activeWallet
    activeAddress,   \* index.js: this.activeAddress
    activeAddressIndex, \* index.js: this.activeAddressIndex
    activeNetwork,   \* index.js: this.activeNetwork
    activeRpcUrl,    \* index.js: this.activeRpcUrl
    configFile,      \* content of ./config/config.json, or NoFile
    atSave,          \* the four saved fields as they were at the last successful save
    sinceSave,       \* "none", "saved" (written, still running), "reloaded" (tool restarted)
    console,         \* the functions installed as console.warn / error / log
    timers,          \* pending 5 s restore timers, oldest first: what each will install
    originals,       \* getNativeBalance: originalWarn / originalError / originalLog
    balancePc,       \* "off", "idle" (menu shown) or "running" (getNativeBalance awaits)
    sourceVersion,   \* which content contracts/Token.sol has now
    buildFile,       \* content of ./build/Token.json
    compiled,        \* value returned by the last compile() call
    requested        \* target contract and source content of the last compile() call

protoVars == <<pc, explorersFile, networkEntry, buildArtifact, sourcesPresent,
               encodable, deploymentFile, deployResult, apiKey, apiUrl,
               constructorArgs, retryCount, response, guid, i, statusData,
               verified, outcome, report, escaped, graceWaits, submissions,
               backoffs, pollWaits, polls, polledGuid, submitLog, pendingSeen,
               netFailure>>

metaVars == <<bytecode, metadata, decoded, prefixedMetadata, compilerVersion,
              prefixedVersion>>

buildVars == <<tokenConfig, compilePath, artifactOptimizer, deployedArgs,
               payload>>

vmVars == <<vmPc, deployedCode, calls, settleOrder, allPromise, functionality,
            raised, verificationResult, reportStatus>>

toolVars == <<activeWallet, activeAddress, activeAddressIndex, activeNetwork,
              activeRpcUrl, configFile, atSave, sinceSave, console, timers,
              originals, balancePc>>

compileVars == <<sourceVersion, buildFile, compiled, requested>>

vars == <<protoVars, metaVars, buildVars, vmVars, toolVars, compileVars>>

\* no usable ./build/<name>.json
NoBuildFile == [valid |-> FALSE]

\* compile() has not been called
CompilerIdle ==
    /\ sourceVersion = 1
    /\ buildFile = NoBuildFile
    /\ compiled = [t |-> "unset"]
    /\ requested = [t |-> "unset"]

\* JavaScript values of the tool's fields: null, a number, a string
JsNull == [type |-> "null", v |-> "null"]
JsNumber(n) == [type |-> "number", v |-> n]

\* index.js lines 19-23: the fields as the constructor sets them
NoSelection ==
    [activeWallet |-> JsNull, activeAddressIndex |-> JsNull,
     activeNetwork |-> JsNull, activeRpcUrl |-> JsNull]

\* ./config/config.json does not exist
NoFile == [t |-> "absent"]

\* the console functions of the process before anything replaces them
InstalledConsole ==
    [warn |-> "console.warn", error |-> "console.error", log |-> "console.log"]

\* the interactive tool is not part of the run
ToolOff ==
    /\ activeWallet = JsNull
    /\ activeAddress = JsNull
    /\ activeAddressIndex = JsNull
    /\ activeNetwork = JsNull
    /\ activeRpcUrl = JsNull
    /\ configFile = NoFile
    /\ atSave = NoSelection
    /\ sinceSave = "none"
    /\ console = InstalledConsole
    /\ timers = <<>>
    /\ originals = InstalledConsole
    /\ balancePc = "off"

----------------------------------------------------------------------------
(* Program constants                                                       *)

\* ContractVerifier.verifyContract: const maxRetries = 3
maxRetries == 3

\* ContractVerifier.checkVerificationStatus: for (let i = 0; i < 10; i++)
MaxPolls == 10

\* getMetadataSectionLength: const METADATA_LENGTH = 2
METADATA_LENGTH == 2

----------------------------------------------------------------------------
(* Explorer responses                                                      *)

\* A result text is a sequence of text fragments; String.includes(needle)
\* is true when the needle is one of the fragments.  The empty sequence is
\* the empty / missing (falsy) result.
UnableToLocate == "Unable to locate ContractCode"
PendingInQueue == "Pending in queue"

Includes(text, needle) == \E k \in 1..Len(text) : text[k] = needle

Truthy(text) == Len(text) > 0

Guids == { <<"abc123">>, <<"def456">> }

ResultTexts ==
    Guids \cup
    { <<UnableToLocate, " at 0x1234">>,
      <<PendingInQueue>>,
      <<"Fail - Unable to verify">>,
      <<"Pass - Verified">>,
      <<>> }

Statuses == {"0", "1"}

Responses == [status : Statuses, result : ResultTexts]

\* a submission response that says the contract code is not located yet
SaysNotLocated(r) == r.status = "0" /\ Includes(r.result, UnableToLocate)

\* a status response that says the job is still queued
SaysPending(r) == r.status # "1" /\ r.result = <<PendingInQueue>>

NoResponse == [status |-> "none", result |-> <<>>]

NoGuid == <<"(no guid)">>

deploymentInfo == "deploymentInfo"

----------------------------------------------------------------------------
(* deploy.js                                                               *)

\* variant: a placeholder key is used when the chain has no entry
getApiKeyForChain_Default(file) ==
    IF file = "hasKey" \/ file = "noEntry" THEN "KEY" ELSE "null"

\* getApiKeyForChain: null when explorers.json is missing, cannot be parsed
\* or has no (truthy) entry for the chain id
getApiKeyForChain(file) ==
    IF file = "hasKey" THEN "KEY" ELSE "null"

\* NetworkManager.getNetworks() as its callers use it (ContractVerifier.js
\* line 11, index.js lines 731-843): a list of network entries with chainId
\* and explorerURL.  The NetworkManager.js at hand defines no getNetworks;
\* what the list holds for the deployed chain id is one of:
\*   "none"        no entry with that chainId
\*   "noExplorer"  an entry without explorerURL
\*   "badUrl"      an entry whose explorerURL is not a URL
\*   "ok"          an entry with a well-formed explorerURL
getNetworks == {"none", "noExplorer", "badUrl", "ok"}

\* getApiEndpoint: null when the chain has no network entry, the entry has
\* no explorerURL, or new URL(explorerURL) throws
getApiEndpoint(entry) ==
    IF entry = "none" \/ entry = "noExplorer" THEN "null"
    ELSE IF entry = "badUrl" THEN "null"
    ELSE "https://api.host/api"

\* what a call leaves behind when an exception propagates out of it
THREW == [t |-> "threw"]

RECURSIVE Pow10(_)
Pow10(n) == IF n = 0 THEN 1 ELSE 10 * Pow10(n - 1)

\* ethers.parseUnits(value.toString(), decimals) for a whole number
parseUnits(value, decimals) == value * Pow10(decimals)

\* deploy() lines 80-85: const constructorArgs = [...]
deployConstructorArgs(cfg) ==
    <<cfg.name, cfg.symbol, cfg.decimals,
      parseUnits(cfg.totalSupply, cfg.decimals)>>

\* the value of '' as constructor arguments
EmptyArgs == [t |-> "empty"]

\* variant: the total supply is encoded as entered, without scaling
encodeConstructorArgs_Unscaled(cfg, ok) ==
    IF ok
    THEN [t |-> "hex",
          types |-> <<"string", "string", "uint8", "uint256">>,
          values |-> <<cfg.name, cfg.symbol, cfg.decimals, cfg.totalSupply>>]
    ELSE EmptyArgs

\* variant: no try/catch, an encoding error propagates
encodeConstructorArgs_Throws(cfg, ok) ==
    IF ok
    THEN [t |-> "hex",
          types |-> <<"string", "string", "uint8", "uint256">>,
          values |-> <<cfg.name, cfg.symbol, cfg.decimals,
                       parseUnits(cfg.totalSupply, cfg.decimals)>>]
    ELSE THREW

\* encodeConstructorArgs lines 162-184: the ABI encoding of the four values
\* under the four types (ok: abiCoder.encode accepts them), without its
\* '0x'; '' when encoding throws
encodeConstructorArgs(cfg, ok) ==
    IF ok
    THEN [t |-> "hex",
          types |-> <<"string", "string", "uint8", "uint256">>,
          values |-> <<cfg.name, cfg.symbol, cfg.decimals,
                       parseUnits(cfg.totalSupply, cfg.decimals)>>]
    ELSE EmptyArgs

\* createStandardJsonInput lines 110-118: the six files read
SourceFiles ==
    {"Token.sol", "ERC20.sol", "IERC20.sol", "IERC20Metadata.sol",
     "Context.sol", "draft-IERC6093.sol"}

\* createStandardJsonInput lines 109-160: the compilation unit; a file that
\* cannot be read makes the catch at 156-159 throw a new Error
createStandardJsonInput(present) ==
    IF SourceFiles \subseteq present
    THEN [language |-> "Solidity",
          sources |-> SourceFiles,
          optimizer |-> [enabled |-> TRUE, runs |-> 200]]
    ELSE THREW

\* verifyContract lines 55-68: const verificationData
verificationData(standardJsonInput, args) ==
    [sourceCode |-> standardJsonInput,
     codeformat |-> "solidity-standard-json-input",
     optimizationUsed |-> "1",
     runs |-> "200",
     constructorArguments |-> args]

(* compile.js ---------------------------------------------------------------*)

\* optimizer settings of a compiler run
Optimized200 == [enabled |-> TRUE, runs |-> 200]
Unoptimized == [enabled |-> FALSE, runs |-> 200]

\* universalCompile: the three methods, in the order they are tried
Methods == <<"solc", "solcjs", "programmatic">>

\* the settings each method compiles with: the solc and solcjs command lines
\* (lines 540, 575-576) carry no --optimize, the programmatic input (lines
\* 662-665) sets optimizer enabled with 200 runs
MethodOptimizer(m) ==
    IF m = "programmatic" THEN Optimized200 ELSE Unoptimized

CompileFailed ==
    [success |-> FALSE, path |-> "none", optimizer |-> [t |-> "unset"]]

\* universalCompile lines 532-710: the first method that works
universalCompile(working) ==
    IF \E k \in 1..Len(Methods) : Methods[k] \in working
    THEN LET first == CHOOSE k \in 1..Len(Methods) :
                         /\ Methods[k] \in working
                         /\ \A j \in 1..(k - 1) : Methods[j] \notin working
         IN  [success |-> TRUE, path |-> Methods[first],
              optimizer |-> MethodOptimizer(Methods[first])]
    ELSE CompileFailed

\* what ./build/<name>.json can hold before compile(): nothing usable, or
\* abi and bytecode from an earlier compilation under either setting
ExistingBuildFiles ==
    {[valid |-> FALSE]}
    \cup {[valid |-> TRUE, optimizer |-> o] : o \in {Optimized200, Unoptimized}}

\* compile lines 417-527: a build file with abi and bytecode is reused,
\* otherwise universalCompile runs
compile(existing, working) ==
    IF existing.valid
    THEN [success |-> TRUE, path |-> "reused", optimizer |-> existing.optimizer]
    ELSE universalCompile(working)

(* Inputs of deploy() ------------------------------------------------------*)

DecimalsValues == {0, 2}
SupplyValues == {1, 3}

TokenConfigs ==
    { [name |-> "Token", symbol |-> "TKN", decimals |-> d, totalSupply |-> t] :
        d \in DecimalsValues, t \in SupplyValues }

\* file sets with at most one of the six sources unreadable
SourceSets == {SourceFiles} \cup { SourceFiles \ {f} : f \in SourceFiles }

NoConfig == [t |-> "unset"]

Init ==
    /\ pc = "d_compile"
    /\ explorersFile \in {"missing", "unreadable", "noEntry", "hasKey"}
    /\ networkEntry \in getNetworks
    /\ buildArtifact \in BOOLEAN
    /\ sourcesPresent \in SourceSets
    /\ encodable \in BOOLEAN
    /\ deploymentFile = "absent"
    /\ deployResult = "none"
    /\ apiKey = "unset"
    /\ apiUrl = "unset"
    /\ constructorArgs = [t |-> "unset"]
    /\ retryCount = 0
    /\ response = NoResponse
    /\ guid = NoGuid
    /\ i = 0
    /\ statusData = NoResponse
    /\ verified = "pending"
    /\ outcome = "none"
    /\ report = "none"
    /\ escaped = FALSE
    /\ graceWaits = 0
    /\ submissions = 0
    /\ backoffs = 0
    /\ pollWaits = 0
    /\ polls = 0
    /\ polledGuid = NoGuid
    /\ submitLog = <<>>
    /\ pendingSeen = 0
    /\ netFailure = "none"
    /\ bytecode = <<>>
    /\ metadata = [t |-> "unset"]
    /\ decoded = FALSE
    /\ prefixedMetadata = [t |-> "unset"]
    /\ compilerVersion = [t |-> "unset"]
    /\ prefixedVersion = [t |-> "unset"]
    /\ tokenConfig \in TokenConfigs
    /\ compilePath = "none"
    /\ artifactOptimizer = [t |-> "unset"]
    /\ deployedArgs = <<>>
    /\ payload = [t |-> "unset"]
    /\ vmPc = "idle"
    /\ deployedCode = [t |-> "unset"]
    /\ calls = <<>>
    /\ settleOrder = <<>>
    /\ allPromise = [state |-> "none"]
    /\ functionality = [t |-> "unset"]
    /\ raised = FALSE
    /\ verificationResult = [t |-> "unset"]
    /\ reportStatus = "none"
    /\ ToolOff
    /\ CompilerIdle

\* deploy() lines 20-98: compile (line 27), build the constructor arguments,
\* connect and send the deployment transaction. A failed compilation (line
\* 29) or any other failure on the way is rethrown by the catch at lines
\* 122-125.
DeploySend ==
    /\ pc = "d_compile"
    /\ \E existing \in ExistingBuildFiles,
          working \in SUBSET {"solc", "solcjs", "programmatic"},
          sent \in BOOLEAN :
         LET compilationResult == compile(existing, working)
         IN  IF compilationResult.success /\ sent
             THEN /\ pc' = "d_confirm"
                  /\ compilePath' = compilationResult.path
                  /\ artifactOptimizer' = compilationResult.optimizer
                  /\ deployedArgs' = deployConstructorArgs(tokenConfig)
                  /\ UNCHANGED deployResult
             ELSE /\ pc' = "done"
                  /\ deployResult' = "thrown"
                  /\ UNCHANGED <<compilePath, artifactOptimizer, deployedArgs>>
    /\ UNCHANGED <<explorersFile, networkEntry, buildArtifact, sourcesPresent,
                   encodable, deploymentFile, apiKey, apiUrl,
                   constructorArgs, retryCount, response, guid, i, statusData,
                   verified, outcome, report, escaped, graceWaits, submissions,
                   backoffs, pollWaits, polls, polledGuid, submitLog,
                   pendingSeen, netFailure, metaVars, tokenConfig, payload,
                   vmVars, toolVars, compileVars>>

\* variant: deployment.json is not written before verification
DeployConfirm_NoSave ==
    /\ pc = "d_confirm"
    /\ \E ok \in BOOLEAN :
         IF ok
         THEN /\ pc' = "av_start"
              /\ UNCHANGED deploymentFile
              /\ UNCHANGED deployResult
         ELSE /\ pc' = "done"
              /\ deployResult' = "thrown"
              /\ UNCHANGED deploymentFile
    /\ UNCHANGED <<explorersFile, networkEntry, buildArtifact, sourcesPresent,
                   encodable, apiKey, apiUrl,
                   constructorArgs, retryCount, response, guid, i, statusData,
                   verified, outcome, report, escaped, graceWaits, submissions,
                   backoffs, pollWaits, polls, polledGuid, submitLog,
                   pendingSeen, netFailure, metaVars, buildVars, vmVars, toolVars, compileVars>>

\* deploy() lines 98-120: waitForDeployment resolves, deployment.json is
\* written, attemptVerification is entered.
DeployConfirm ==
    /\ pc = "d_confirm"
    /\ \E ok \in BOOLEAN :
         IF ok
         THEN /\ pc' = "av_start"
              /\ deploymentFile' = deploymentInfo
              /\ UNCHANGED deployResult
         ELSE /\ pc' = "done"
              /\ deployResult' = "thrown"
              /\ UNCHANGED deploymentFile
    /\ UNCHANGED <<explorersFile, networkEntry, buildArtifact, sourcesPresent,
                   encodable, apiKey, apiUrl,
                   constructorArgs, retryCount, response, guid, i, statusData,
                   verified, outcome, report, escaped, graceWaits, submissions,
                   backoffs, pollWaits, polls, polledGuid, submitLog,
                   pendingSeen, netFailure, metaVars, buildVars, vmVars, toolVars, compileVars>>

\* attemptVerification lines 128-139: resolve the API key; without one,
\* print the hint and return; with one, call verifier.verifyContract.
AttemptVerification ==
    /\ pc = "av_start"
    /\ apiKey' = getApiKeyForChain(explorersFile)
    /\ IF apiKey' = "null"
       THEN /\ pc' = "d_return"
            /\ outcome' = "Skipped"
       ELSE /\ pc' = "vc_start"
            /\ UNCHANGED outcome
    /\ UNCHANGED <<explorersFile, networkEntry, buildArtifact, sourcesPresent,
                   encodable, deploymentFile, deployResult, apiUrl,
                   constructorArgs, retryCount, response, guid, i, statusData,
                   verified, report, escaped, graceWaits, submissions,
                   backoffs, pollWaits, polls, polledGuid, submitLog,
                   pendingSeen, netFailure, metaVars, buildVars, vmVars, toolVars, compileVars>>

\* variant: the 15 s indexing timer of line 42 is left out
VerifyContractStart_NoGrace ==
    /\ pc = "vc_start"
    /\ apiUrl' = getApiEndpoint(networkEntry)
    /\ IF apiUrl' = "null"
       THEN /\ pc' = "av_result"
            /\ verified' = "false"
            /\ outcome' = "Unsupported"
            /\ UNCHANGED graceWaits
       ELSE /\ pc' = "vc_grace"
            /\ UNCHANGED graceWaits
            /\ UNCHANGED <<verified, outcome>>
    /\ UNCHANGED <<explorersFile, networkEntry, buildArtifact, sourcesPresent,
                   encodable, deploymentFile, deployResult, apiKey,
                   constructorArgs, retryCount, response, guid, i, statusData,
                   report, escaped, submissions,
                   backoffs, pollWaits, polls, polledGuid, submitLog,
                   pendingSeen, netFailure, metaVars, buildVars, vmVars, toolVars, compileVars>>

\* verifyContract lines 30-42: resolve the API endpoint; without one return
\* false, otherwise start the 15 s indexing timer.
VerifyContractStart ==
    /\ pc = "vc_start"
    /\ apiUrl' = getApiEndpoint(networkEntry)
    /\ IF apiUrl' = "null"
       THEN /\ pc' = "av_result"
            /\ verified' = "false"
            /\ outcome' = "Unsupported"
            /\ UNCHANGED graceWaits
       ELSE /\ pc' = "vc_grace"
            /\ graceWaits' = graceWaits + 1
            /\ UNCHANGED <<verified, outcome>>
    /\ UNCHANGED <<explorersFile, networkEntry, buildArtifact, sourcesPresent,
                   encodable, deploymentFile, deployResult, apiKey,
                   constructorArgs, retryCount, response, guid, i, statusData,
                   report, escaped, submissions,
                   backoffs, pollWaits, polls, polledGuid, submitLog,
                   pendingSeen, netFailure, metaVars, buildVars, vmVars, toolVars, compileVars>>

\* verifyContract lines 42-76: the grace timer fires; the artifact is read,
\* the compilation unit is rebuilt, the constructor arguments are encoded,
\* the payload is assembled and the first submission is issued. An
\* exception from any of these steps lands in the catch at lines 103-106,
\* which returns false.
VerifyContractPrepare ==
    /\ pc = "vc_grace"
    /\ LET standardJsonInput == createStandardJsonInput(sourcesPresent)
           args == encodeConstructorArgs(tokenConfig, encodable)
       IN  IF buildArtifact /\ standardJsonInput # THREW /\ args # THREW
           THEN /\ constructorArgs' = args
                /\ payload' = verificationData(standardJsonInput, args)
                /\ submissions' = submissions + 1
                /\ pc' = "vc_submit"
                /\ UNCHANGED <<verified, outcome>>
           ELSE /\ pc' = "av_result"
                /\ verified' = "false"
                /\ outcome' = "Failed"
                /\ UNCHANGED <<constructorArgs, payload, submissions>>
    /\ UNCHANGED <<explorersFile, networkEntry, buildArtifact, sourcesPresent,
                   encodable, deploymentFile, deployResult, apiKey, apiUrl,
                   retryCount, response, guid, i, statusData,
                   report, escaped, graceWaits,
                   backoffs, pollWaits, polls, polledGuid, submitLog,
                   pendingSeen, netFailure, metaVars, tokenConfig, compilePath,
                   artifactOptimizer, deployedArgs, vmVars, toolVars, compileVars>>

----------------------------------------------------------------------------
(* ContractVerifier.js: submission loop                                    *)

\* line 75: while (retryCount < maxRetries)
LoopTest(rc) == rc < maxRetries

\* variant: every status '0' response is retried
NotYetIndexed_AnyFailure(r) == r.status = "0"

\* line 79: response.status === '0' && response.result &&
\*          response.result.includes('Unable to locate ContractCode')
NotYetIndexed(r) ==
    r.status = "0" /\ Truthy(r.result) /\ Includes(r.result, UnableToLocate)

\* variant: the budget test admits one attempt too many
CanRetry_OffByOne(rc) == rc <= maxRetries

\* line 81: if (retryCount < maxRetries)
CanRetry(rc) == rc < maxRetries

\* line 90: if (response.status === '1')
SubmitAccepted(r) == r.status = "1"

\* variant: the status field is handed on instead of the result
GuidOf_Status(r) == <<r.status>>

\* line 95: checkVerificationStatus(apiUrl, response.result, apiKey)
GuidOf(r) == r.result

\* variant: the polling call sits outside the try block
CatchSite_PollOutside(site) ==
    IF site = "poll" THEN "attemptVerification" ELSE "verifyContract"

\* variant: the submission call sits outside the try block
CatchSite_SubmitOutside(site) ==
    IF site = "submit" THEN "attemptVerification" ELSE "verifyContract"

\* lines 31 and 103: the function that catches an exception thrown by the
\* network call at the given site ("submit", "poll")
CatchSite(site) == "verifyContract"

\* variant: the loop bound admits an 11th iteration
PollBudgetLeft_OffByOne(n) == n <= MaxPolls

\* line 206: i < 10
PollBudgetLeft(n) == n < MaxPolls

\* variant: no 'Pending in queue' branch
PollVerdict_NoPending(sd) ==
    IF sd.status = "1" THEN "Verified" ELSE "Failed"

\* lines 212-221: what one status-poll response means
PollVerdict(sd) ==
    IF sd.status = "1" THEN "Verified"
    ELSE IF sd.result = <<PendingInQueue>> THEN "Pending"
    ELSE "Failed"

\* lines 103-106 (exception caught, return false) or the exception leaves
\* verifyContract and reaches the catch of attemptVerification
Thrown(site) ==
    /\ netFailure' = site
    /\ pc' = "av_result"
    /\ IF CatchSite(site) = "verifyContract"
       THEN /\ verified' = "false"
            /\ outcome' = "Failed"
            /\ UNCHANGED escaped
       ELSE /\ verified' = "threw"
            /\ outcome' = "Threw"
            /\ escaped' = TRUE

\* lines 90-101 for the response r: start polling, or return false
AfterLoop(r) ==
    IF SubmitAccepted(r)
    THEN /\ guid' = GuidOf(r)
         /\ i' = 0
         /\ IF PollBudgetLeft(0)
            THEN /\ pc' = "cs_wait"
                 /\ pollWaits' = pollWaits + 1
                 /\ UNCHANGED <<verified, outcome>>
            ELSE /\ pc' = "av_result"
                 /\ verified' = "false"
                 /\ outcome' = "TimedOut"
                 /\ UNCHANGED pollWaits
    ELSE /\ pc' = "av_result"
         /\ verified' = "false"
         /\ outcome' = "Failed"
         /\ UNCHANGED <<guid, i, pollWaits>>

\* verifyContract lines 76-101: the submission call settles.
SubmitResponse ==
    /\ pc = "vc_submit"
    /\ \/ /\ Thrown("submit")
          /\ UNCHANGED <<response, submitLog, retryCount, backoffs, guid, i,
                         pollWaits>>
       \/ \E r \in Responses :
            /\ response' = r
            /\ submitLog' = Append(submitLog, r)
            /\ retryCount' = IF NotYetIndexed(r) THEN retryCount + 1
                             ELSE retryCount
            /\ IF NotYetIndexed(r) /\ CanRetry(retryCount')
               THEN /\ backoffs' = backoffs + 1
                    /\ pc' = "vc_backoff"
                    /\ UNCHANGED <<guid, i, pollWaits, verified, outcome>>
               ELSE /\ AfterLoop(r)
                    /\ UNCHANGED backoffs
            /\ UNCHANGED <<netFailure, escaped>>
    /\ UNCHANGED <<explorersFile, networkEntry, buildArtifact, sourcesPresent,
                   encodable, deploymentFile, deployResult, apiKey, apiUrl,
                   constructorArgs, statusData, report, graceWaits,
                   submissions, polls, polledGuid, pendingSeen, metaVars, buildVars, vmVars, toolVars, compileVars>>

\* verifyContract lines 83-84, 75-76: the 10 s timer fires, the loop test
\* is evaluated and the submission is issued again.
BackoffDone ==
    /\ pc = "vc_backoff"
    /\ IF LoopTest(retryCount)
       THEN /\ submissions' = submissions + 1
            /\ pc' = "vc_submit"
            /\ UNCHANGED <<guid, i, pollWaits, verified, outcome>>
       ELSE /\ AfterLoop(response)
            /\ UNCHANGED submissions
    /\ UNCHANGED <<explorersFile, networkEntry, buildArtifact, sourcesPresent,
                   encodable, deploymentFile, deployResult, apiKey, apiUrl,
                   constructorArgs, retryCount, response, statusData, report,
                   escaped, graceWaits, backoffs, polls, polledGuid,
                   submitLog, pendingSeen, netFailure, metaVars, buildVars, vmVars, toolVars, compileVars>>

----------------------------------------------------------------------------
(* ContractVerifier.js: status polling                                     *)

\* checkVerificationStatus lines 207-209: the 5 s timer fires and the
\* status request for guid is sent.
PollSend ==
    /\ pc = "cs_wait"
    /\ polls' = polls + 1
    /\ polledGuid' = guid
    /\ pc' = "cs_poll"
    /\ UNCHANGED <<explorersFile, networkEntry, buildArtifact, sourcesPresent,
                   encodable, deploymentFile, deployResult, apiKey, apiUrl,
                   constructorArgs, retryCount, response, guid, i, statusData,
                   verified, outcome, report, escaped, graceWaits, submissions,
                   backoffs, pollWaits, submitLog, pendingSeen, netFailure,
                   metaVars, buildVars, vmVars, toolVars, compileVars>>

\* checkVerificationStatus lines 209-225: the status request settles.
PollResponse ==
    /\ pc = "cs_poll"
    /\ \/ /\ Thrown("poll")
          /\ UNCHANGED <<statusData, pendingSeen, i, pollWaits>>
       \/ \E sd \in Responses :
            /\ statusData' = sd
            /\ pendingSeen' = IF SaysPending(sd) THEN pendingSeen + 1
                              ELSE pendingSeen
            /\ UNCHANGED <<netFailure, escaped>>
            /\ CASE PollVerdict(sd) = "Verified" ->
                      /\ verified' = "true"
                      /\ outcome' = "Verified"
                      /\ pc' = "av_result"
                      /\ UNCHANGED <<i, pollWaits>>
                 [] PollVerdict(sd) = "Pending" ->
                      /\ i' = i + 1
                      /\ IF PollBudgetLeft(i')
                         THEN /\ pc' = "cs_wait"
                              /\ pollWaits' = pollWaits + 1
                              /\ UNCHANGED <<verified, outcome>>
                         ELSE /\ pc' = "av_result"
                              /\ verified' = "false"
                              /\ outcome' = "TimedOut"
                              /\ UNCHANGED pollWaits
                 [] OTHER ->
                      /\ verified' = "false"
                      /\ outcome' = "Failed"
                      /\ pc' = "av_result"
                      /\ UNCHANGED <<i, pollWaits>>
    /\ UNCHANGED <<explorersFile, networkEntry, buildArtifact, sourcesPresent,
                   encodable, deploymentFile, deployResult, apiKey, apiUrl,
                   constructorArgs, retryCount, response, guid, report,
                   graceWaits, submissions, backoffs, polls, polledGuid,
                   submitLog, metaVars, buildVars, vmVars, toolVars, compileVars>>

----------------------------------------------------------------------------
(* deploy.js: after verifyContract                                         *)

\* attemptVerification lines 139-153: print the result of verifyContract
\* (or, in the catch, the error) and prompt for Enter.
AttemptVerificationResult ==
    /\ pc = "av_result"
    /\ report' = IF verified = "true" THEN "success"
                 ELSE IF verified = "false" THEN "failed"
                 ELSE "error"
    /\ pc' = "av_enter"
    /\ UNCHANGED <<explorersFile, networkEntry, buildArtifact, sourcesPresent,
                   encodable, deploymentFile, deployResult, apiKey, apiUrl,
                   constructorArgs, retryCount, response, guid, i, statusData,
                   verified, outcome, escaped, graceWaits, submissions,
                   backoffs, pollWaits, polls, polledGuid, submitLog,
                   pendingSeen, netFailure, metaVars, buildVars, vmVars, toolVars, compileVars>>

\* attemptVerification lines 154-157: the user presses Enter.
AttemptVerificationEnter ==
    /\ pc = "av_enter"
    /\ pc' = "d_return"
    /\ UNCHANGED <<explorersFile, networkEntry, buildArtifact, sourcesPresent,
                   encodable, deploymentFile, deployResult, apiKey, apiUrl,
                   constructorArgs, retryCount, response, guid, i, statusData,
                   verified, outcome, report, escaped, graceWaits, submissions,
                   backoffs, pollWaits, polls, polledGuid, submitLog,
                   pendingSeen, netFailure, metaVars, buildVars, vmVars, toolVars, compileVars>>

\* deploy() line 121: return deploymentInfo
DeployReturn ==
    /\ pc = "d_return"
    /\ deployResult' = deploymentInfo
    /\ pc' = "done"
    /\ UNCHANGED <<explorersFile, networkEntry, buildArtifact, sourcesPresent,
                   encodable, deploymentFile, apiKey, apiUrl,
                   constructorArgs, retryCount, response, guid, i, statusData,
                   verified, outcome, report, escaped, graceWaits, submissions,
                   backoffs, pollWaits, polls, polledGuid, submitLog,
                   pendingSeen, netFailure, metaVars, buildVars, vmVars, toolVars, compileVars>>

Next ==
    \/ DeploySend
    \/ DeployConfirm
    \/ AttemptVerification
    \/ VerifyContractStart
    \/ VerifyContractPrepare
    \/ SubmitResponse
    \/ BackoffDone
    \/ PollSend
    \/ PollResponse
    \/ AttemptVerificationResult
    \/ AttemptVerificationEnter
    \/ DeployReturn

Spec == Init /\ [][Next]_vars

----------------------------------------------------------------------------
(* part_001: bytecode metadata decoder (VerificationManager)               *)

\* A bytecode string is a sequence of one-character strings; a Buffer is a
\* sequence of numbers 0..255.

HexDigits ==
    <<"0", "1", "2", "3", "4", "5", "6", "7", "8", "9",
      "a", "b", "c", "d", "e", "f">>

IsHex(c) == \E k \in 1..16 : HexDigits[k] = c

HexVal(c) == (CHOOSE k \in 1..16 : HexDigits[k] = c) - 1

RECURSIVE HexPairs(_, _, _)
HexPairs(str, p, acc) ==
    IF p + 1 > Len(str) THEN acc
    ELSE IF ~(IsHex(str[p]) /\ IsHex(str[p + 1])) THEN acc
    ELSE HexPairs(str, p + 2,
                  Append(acc, 16 * HexVal(str[p]) + HexVal(str[p + 1])))

\* Buffer.from(str, 'hex'): whole pairs of hex digits are decoded from the
\* left; decoding stops at the first pair that is not two hex digits, and
\* a trailing single digit is dropped
BufferFromHex(str) == HexPairs(str, 1, <<>>)

\* String.prototype.slice(start) / Buffer.prototype.slice(start, end):
\* the 0-based index a relative argument denotes in a sequence of length n
RelIndex(k, n) ==
    IF k < 0 THEN (IF n + k < 0 THEN 0 ELSE n + k)
    ELSE (IF k > n THEN n ELSE k)

\* str.slice(start)
StrSlice(str, start) == SubSeq(str, RelIndex(start, Len(str)) + 1, Len(str))

\* buf.slice(start, end)
BufSlice(buf, start, end) ==
    SubSeq(buf, RelIndex(start, Len(buf)) + 1, RelIndex(end, Len(buf)))

\* Buffer.prototype.readUInt16BE(0)
readUInt16BE(buf) == 256 * buf[1] + buf[2]

\* variant: the section length is clamped to the size of the bytecode
getMetadataSectionLength_Clamped(bc) ==
    LET metadataLengthBuffer ==
            BufferFromHex(StrSlice(bc, -(METADATA_LENGTH * 2)))
        total == Len(BufferFromHex(bc))
    IN  IF Len(metadataLengthBuffer) # METADATA_LENGTH THEN 0
        ELSE IF readUInt16BE(metadataLengthBuffer) + METADATA_LENGTH > total
             THEN 0
             ELSE readUInt16BE(metadataLengthBuffer) + METADATA_LENGTH

\* getMetadataSectionLength, part_001 lines 29-39
getMetadataSectionLength(bc) ==
    LET metadataLengthSlice == StrSlice(bc, -(METADATA_LENGTH * 2))
        metadataLengthBuffer == BufferFromHex(metadataLengthSlice)
    IN  IF Len(metadataLengthBuffer) # METADATA_LENGTH THEN 0
        ELSE readUInt16BE(metadataLengthBuffer) + METADATA_LENGTH

(* cbor.decodeFirstSync ---------------------------------------------------*)

\* Decoded values are records tagged by t.
NULL == [t |-> "null"]
UNDEFINED == [t |-> "undefined"]

Fail == [ok |-> FALSE, val |-> NULL, next |-> 0]
Ok(v, q) == [ok |-> TRUE, val |-> v, next |-> q]

\* a length no input reaches
TooLong == 16777216

RECURSIVE ArgNum(_, _, _)
\* the number held by the argument bytes, saturated at TooLong
ArgNum(arg, k, acc) ==
    IF k > Len(arg) THEN acc
    ELSE IF 256 * acc + arg[k] >= TooLong THEN TooLong
    ELSE ArgNum(arg, k + 1, 256 * acc + arg[k])

\* bytes that follow the head for additional information ai
ArgWidth(ai) ==
    IF ai < 24 THEN 0
    ELSE IF ai = 24 THEN 1
    ELSE IF ai = 25 THEN 2
    ELSE IF ai = 26 THEN 4
    ELSE 8

\* text strings are decoded as UTF-8 with fatal errors; the inputs of this
\* model hold ASCII text only
Utf8Ok(bytes) == \A k \in 1..Len(bytes) : bytes[k] < 128

Pairs(items) ==
    [k \in 1..(Len(items) \div 2) |-> <<items[2 * k - 1], items[2 * k]>>]

RECURSIVE Concat(_, _, _)
Concat(chunks, k, acc) ==
    IF k > Len(chunks) THEN acc
    ELSE Concat(chunks, k + 1, acc \o chunks[k].v)

\* major type 7
SimpleOrFloat(ai, arg) ==
    IF ai < 20 THEN [ok |-> TRUE, val |-> [t |-> "simple", v |-> ai]]
    ELSE IF ai = 20 THEN [ok |-> TRUE, val |-> [t |-> "false"]]
    ELSE IF ai = 21 THEN [ok |-> TRUE, val |-> [t |-> "true"]]
    ELSE IF ai = 22 THEN [ok |-> TRUE, val |-> NULL]
    ELSE IF ai = 23 THEN [ok |-> TRUE, val |-> UNDEFINED]
    ELSE IF ai = 24
         THEN (IF arg[1] < 32 THEN [ok |-> FALSE, val |-> NULL]
               ELSE [ok |-> TRUE, val |-> [t |-> "simple", v |-> arg[1]]])
    ELSE [ok |-> TRUE, val |-> [t |-> "float", raw |-> arg]]

RECURSIVE DecodeItem(_, _), DecodeItems(_, _, _, _), DecodeIndef(_, _, _, _)

\* n further data items starting at position p
DecodeItems(b, p, n, acc) ==
    IF n = 0 THEN Ok(acc, p)
    ELSE LET r == DecodeItem(b, p)
         IN  IF ~r.ok THEN Fail
             ELSE DecodeItems(b, r.next, n - 1, Append(acc, r.val))

\* the items of an indefinite-length string, array or map up to the break
DecodeIndef(b, p, major, acc) ==
    IF p > Len(b) THEN Fail
    ELSE IF b[p] = 255 THEN Ok(acc, p + 1)
    ELSE IF major \in {2, 3} /\ (b[p] \div 32 # major \/ b[p] % 32 = 31)
         THEN Fail
    ELSE LET r == DecodeItem(b, p)
         IN  IF ~r.ok THEN Fail
             ELSE DecodeIndef(b, r.next, major, Append(acc, r.val))

\* one data item starting at position p of b
DecodeItem(b, p) ==
    IF p > Len(b) THEN Fail
    ELSE
    LET major == b[p] \div 32
        ai == b[p] % 32
    IN
    IF ai \in 28..30 THEN Fail
    ELSE IF ai = 31 THEN
        IF major \in {0, 1, 6, 7} THEN Fail
        ELSE LET r == DecodeIndef(b, p + 1, major, <<>>)
             IN  IF ~r.ok THEN Fail
                 ELSE IF major = 2
                      THEN Ok([t |-> "bytes", v |-> Concat(r.val, 1, <<>>)],
                              r.next)
                 ELSE IF major = 3
                      THEN Ok([t |-> "text", v |-> Concat(r.val, 1, <<>>)],
                              r.next)
                 ELSE IF major = 4
                      THEN Ok([t |-> "array", v |-> r.val], r.next)
                 ELSE IF Len(r.val) % 2 = 1 THEN Fail
                 ELSE Ok([t |-> "map", v |-> Pairs(r.val)], r.next)
    ELSE IF p + ArgWidth(ai) > Len(b) THEN Fail
    ELSE
    LET n == ArgWidth(ai)
        arg == IF n = 0 THEN <<ai>> ELSE SubSeq(b, p + 1, p + n)
        q == p + n + 1
        len == ArgNum(arg, 1, 0)
    IN
    IF major = 0 THEN Ok([t |-> "uint", arg |-> arg], q)
    ELSE IF major = 1 THEN Ok([t |-> "nint", arg |-> arg], q)
    ELSE IF major = 2 THEN
        IF q + len - 1 > Len(b) THEN Fail
        ELSE Ok([t |-> "bytes", v |-> SubSeq(b, q, q + len - 1)], q + len)
    ELSE IF major = 3 THEN
        IF q + len - 1 > Len(b) THEN Fail
        ELSE IF ~Utf8Ok(SubSeq(b, q, q + len - 1)) THEN Fail
        ELSE Ok([t |-> "text", v |-> SubSeq(b, q, q + len - 1)], q + len)
    ELSE IF major = 4 THEN
        LET r == DecodeItems(b, q, len, <<>>)
        IN  IF ~r.ok THEN Fail ELSE Ok([t |-> "array", v |-> r.val], r.next)
    ELSE IF major = 5 THEN
        LET r == DecodeItems(b, q, 2 * len, <<>>)
        IN  IF ~r.ok THEN Fail
            ELSE Ok([t |-> "map", v |-> Pairs(r.val)], r.next)
    ELSE IF major = 6 THEN
        LET r == DecodeItem(b, q)
        IN  IF ~r.ok THEN Fail
            ELSE Ok([t |-> "tag", tag |-> arg, v |-> r.val], r.next)
    ELSE
        LET r == SimpleOrFloat(ai, arg)
        IN  IF ~r.ok THEN Fail ELSE Ok(r.val, q)

\* cbor.decodeFirstSync(input): the first data item; throws on missing
\* bytes ('Insufficient data'), on a malformed item, and on bytes left
\* over after the first item (UnexpectedDataError)
decodeFirstSync(input) ==
    LET r == DecodeItem(input, 1)
    IN  IF ~r.ok THEN [threw |-> TRUE, val |-> NULL]
        ELSE IF r.next <= Len(input) THEN [threw |-> TRUE, val |-> NULL]
        ELSE [threw |-> FALSE, val |-> r.val]

\* variant: neither the early return for a zero section length nor the
\* try/catch around the decoding
extractMetadata_NoGuard(bc) ==
    LET bytecodeBuffer == BufferFromHex(bc)
        metadataSectionLength == getMetadataSectionLength(bc)
        metadataPayload ==
            BufSlice(bytecodeBuffer, -metadataSectionLength, -METADATA_LENGTH)
        decodedMetadata == decodeFirstSync(metadataPayload)
    IN  IF decodedMetadata.threw THEN THREW ELSE decodedMetadata.val

\* extractMetadata, part_001 lines 56-77
extractMetadata(bc) ==
    LET bytecodeBuffer == BufferFromHex(bc)
        metadataSectionLength == getMetadataSectionLength(bc)
    IN  IF metadataSectionLength = 0 THEN NULL
        ELSE LET metadataPayload ==
                     BufSlice(bytecodeBuffer, -metadataSectionLength,
                              -METADATA_LENGTH)
                 decodedMetadata == decodeFirstSync(metadataPayload)
             IN  IF decodedMetadata.threw THEN NULL
                 ELSE decodedMetadata.val

(* inferCompilerVersion ----------------------------------------------------*)

AllZero(bytes) == \A k \in 1..Len(bytes) : bytes[k] = 0

\* a float that is +0, -0 or NaN, from its IEEE 754 bytes (2, 4 or 8)
FloatFalsy(raw) ==
    LET expo == IF Len(raw) = 2 THEN (raw[1] % 128) \div 4
                ELSE IF Len(raw) = 4
                     THEN 2 * (raw[1] % 128) + raw[2] \div 128
                ELSE 16 * (raw[1] % 128) + raw[2] \div 16
        allOnes == IF Len(raw) = 2 THEN 31
                   ELSE IF Len(raw) = 4 THEN 255 ELSE 2047
        rest == <<raw[1] % 128>> \o SubSeq(raw, 2, Len(raw))
        mantissaZero ==
            IF Len(raw) = 2 THEN raw[1] % 4 = 0 /\ raw[2] = 0
            ELSE IF Len(raw) = 4
                 THEN raw[2] % 128 = 0 /\ AllZero(SubSeq(raw, 3, 4))
            ELSE raw[2] % 16 = 0 /\ AllZero(SubSeq(raw, 3, 8))
    IN  AllZero(rest) \/ (expo = allOnes /\ ~mantissaZero)

\* JavaScript !value for a decoded value
JsFalsy(v) ==
    \/ v.t \in {"null", "undefined", "false"}
    \/ v.t = "uint" /\ AllZero(v.arg)
    \/ v.t = "text" /\ v.v = <<>>
    \/ v.t = "float" /\ FloatFalsy(v.raw)

\* the UTF-8 bytes of 's', 'o', 'l', 'c'
SolcKey == <<115, 111, 108, 99>>

\* A decoded map whose keys are all text strings is a plain object (a
\* repeated key keeps its last value); with any other key it is a Map.
IsObject(v) ==
    v.t = "map" /\ \A k \in 1..Len(v.v) : v.v[k][1].t = "text"

\* value.solc: the property of a plain object, undefined for anything else
GetSolc(v) ==
    IF IsObject(v)
       /\ \E k \in 1..Len(v.v) : v.v[k][1].v = SolcKey
    THEN LET last == CHOOSE k \in 1..Len(v.v) :
                        /\ v.v[k][1].v = SolcKey
                        /\ \A j \in (k + 1)..Len(v.v) : v.v[j][1].v # SolcKey
         IN  v.v[last][2]
    ELSE UNDEFINED

RECURSIVE Decimal(_)
\* `${n}` for a byte n: its decimal digits
Decimal(n) ==
    IF n < 10 THEN <<HexDigits[n + 1]>>
    ELSE Decimal(n \div 10) \o <<HexDigits[(n % 10) + 1]>>

\* `${major}.${minor}.${patch}`
VersionString(major, minor, patch) ==
    [t |-> "string",
     v |-> Decimal(major) \o <<".">> \o Decimal(minor) \o <<".">>
           \o Decimal(patch)]

\* variant: a Buffer of three or more bytes is accepted
inferCompilerVersion_AtLeast3(bc) ==
    LET meta == extractMetadata(bc)
    IN  IF JsFalsy(meta) \/ JsFalsy(GetSolc(meta)) THEN NULL
        ELSE LET solcMetadata == GetSolc(meta)
             IN  IF solcMetadata.t = "bytes" /\ Len(solcMetadata.v) >= 3
                 THEN VersionString(solcMetadata.v[1], solcMetadata.v[2],
                                    solcMetadata.v[3])
                 ELSE NULL

\* inferCompilerVersion, part_001 lines 82-97
inferCompilerVersion(bc) ==
    LET meta == extractMetadata(bc)
    IN  IF JsFalsy(meta) \/ JsFalsy(GetSolc(meta)) THEN NULL
        ELSE LET solcMetadata == GetSolc(meta)
             IN  IF solcMetadata.t = "bytes" /\ Len(solcMetadata.v) = 3
                 THEN VersionString(solcMetadata.v[1], solcMetadata.v[2],
                                    solcMetadata.v[3])
                 ELSE NULL

(* Decoder inputs ---------------------------------------------------------*)

RECURSIVE ToHex(_)
\* the hex string of a byte sequence (used to write the sample inputs)
ToHex(bytes) ==
    IF bytes = <<>> THEN <<>>
    ELSE <<HexDigits[(bytes[1] \div 16) + 1], HexDigits[(bytes[1] % 16) + 1]>>
         \o ToHex(Tail(bytes))

\* PUSH1 0x80 PUSH1 0x40: two instructions standing for the executable part
CodePart == <<96, 128, 96, 64>>

\* {"solc": h'000814'} with its length field (10)
TrailerSolc ==
    <<161, 100>> \o SolcKey \o <<67, 0, 8, 20>> \o <<0, 10>>

\* {"ipfs": h'12', "solc": h'000c1a'}, length 17 (version 0.12.26)
TrailerIpfsSolc ==
    <<162, 100, 105, 112, 102, 115, 65, 18, 100>> \o SolcKey
    \o <<67, 0, 12, 26>> \o <<0, 17>>

\* {"ipfs": h'12'}, length 8: no solc key
TrailerNoSolc == <<161, 100, 105, 112, 102, 115, 65, 18>> \o <<0, 8>>

\* {"solc": h'0008'}, length 9: two bytes
TrailerSolc2 == <<161, 100>> \o SolcKey \o <<66, 0, 8>> \o <<0, 9>>

\* {"solc": h'00081400'}, length 11: four bytes
TrailerSolc4 == <<161, 100>> \o SolcKey \o <<68, 0, 8, 20, 0>> \o <<0, 11>>

\* {"solc": "0.8"}, length 10: a text string
TrailerSolcText == <<161, 100>> \o SolcKey \o <<99, 48, 46, 56>> \o <<0, 10>>

\* {"solc": [0, 8, 20]}, length 10: an array of three integers
TrailerSolcArray == <<161, 100>> \o SolcKey \o <<131, 0, 8, 20>> \o <<0, 10>>

\* {1: 2, "solc": h'000814'}, length 12: a key that is not text
TrailerMixedKeys ==
    <<162, 1, 2, 100>> \o SolcKey \o <<67, 0, 8, 20>> \o <<0, 12>>

\* {"solc": h'000814'} cut short by one byte, length 9
TrailerTruncated == <<161, 100>> \o SolcKey \o <<67, 0, 8>> \o <<0, 9>>

SampleBytecodes ==
    { ToHex(CodePart \o t) :
        t \in { TrailerSolc, TrailerIpfsSolc, TrailerNoSolc, TrailerSolc2,
                TrailerSolc4, TrailerSolcText, TrailerSolcArray,
                TrailerMixedKeys, TrailerTruncated } }


\* characters the bounded bytecode strings are built from
HexAlphabet == {"0", "1", "a", "f"}

\* longest bytecode string, in characters
MaxHexLen == 6

BytecodeInputs ==
    UNION { [1..n -> HexAlphabet] : n \in 0..MaxHexLen } \cup SampleBytecodes

\* '0x' + bc
Prefixed(bc) == <<"0", "x">> \o bc

InitMeta ==
    /\ pc = "idle"
    /\ explorersFile = "missing"
    /\ networkEntry = "none"
    /\ buildArtifact = FALSE
    /\ sourcesPresent = {}
    /\ encodable = FALSE
    /\ deploymentFile = "absent"
    /\ deployResult = "none"
    /\ apiKey = "unset"
    /\ apiUrl = "unset"
    /\ constructorArgs = [t |-> "unset"]
    /\ retryCount = 0
    /\ response = NoResponse
    /\ guid = NoGuid
    /\ i = 0
    /\ statusData = NoResponse
    /\ verified = "pending"
    /\ outcome = "none"
    /\ report = "none"
    /\ escaped = FALSE
    /\ graceWaits = 0
    /\ submissions = 0
    /\ backoffs = 0
    /\ pollWaits = 0
    /\ polls = 0
    /\ polledGuid = NoGuid
    /\ submitLog = <<>>
    /\ pendingSeen = 0
    /\ netFailure = "none"
    /\ bytecode \in BytecodeInputs
    /\ metadata = [t |-> "unset"]
    /\ decoded = FALSE
    /\ prefixedMetadata = [t |-> "unset"]
    /\ compilerVersion = [t |-> "unset"]
    /\ prefixedVersion = [t |-> "unset"]
    /\ tokenConfig = NoConfig
    /\ compilePath = "none"
    /\ artifactOptimizer = [t |-> "unset"]
    /\ deployedArgs = <<>>
    /\ payload = [t |-> "unset"]
    /\ vmPc = "idle"
    /\ deployedCode = [t |-> "unset"]
    /\ calls = <<>>
    /\ settleOrder = <<>>
    /\ allPromise = [state |-> "none"]
    /\ functionality = [t |-> "unset"]
    /\ raised = FALSE
    /\ verificationResult = [t |-> "unset"]
    /\ reportStatus = "none"
    /\ ToolOff
    /\ CompilerIdle

\* the decoder applied to bytecode and to '0x' + bytecode:
\* extractMetadata and inferCompilerVersion, one call each
ExtractMetadata ==
    /\ ~decoded
    /\ metadata' = extractMetadata(bytecode)
    /\ prefixedMetadata' = extractMetadata(Prefixed(bytecode))
    /\ compilerVersion' = inferCompilerVersion(bytecode)
    /\ prefixedVersion' = inferCompilerVersion(Prefixed(bytecode))
    /\ decoded' = TRUE
    /\ UNCHANGED <<bytecode, protoVars, buildVars, vmVars, toolVars, compileVars>>

NextMeta == ExtractMetadata

SpecMeta == InitMeta /\ [][NextMeta]_vars

----------------------------------------------------------------------------
(* VerificationManager: verifyContractFunctionality, verifyContract        *)

\* values the read calls resolve to: a string, or a bigint
JsString(s) == [type |-> "string", v |-> s]
JsBigInt(n) == [type |-> "bigint", v |-> n]

\* lines 114-119: the four calls, in the order of the array given to
\* Promise.all
CallNames == <<"name", "symbol", "decimals", "totalSupply">>

\* what the contract at the address can answer to each call
Answers(c) ==
    IF c = "name" THEN {JsString("Token"), JsString("Other")}
    ELSE IF c = "symbol" THEN {JsString("TKN"), JsString("OTH")}
    ELSE IF c = "decimals" THEN {JsBigInt(0), JsBigInt(2)}
    ELSE {JsBigInt(1), JsBigInt(3), JsBigInt(100)}

\* error.message of the Error a failed call rejects with
CallError(c) ==
    IF c = "name" THEN "name() call failed"
    ELSE IF c = "symbol" THEN "symbol() call failed"
    ELSE IF c = "decimals" THEN "decimals() call failed"
    ELSE "totalSupply() call failed"

PendingCall == [state |-> "pending"]

\* variant: the fulfilment values are collected in completion order
PromiseAllValues_CompletionOrder(settled, order) ==
    [k \in 1..Len(CallNames) |-> settled[order[k]].value]

\* Promise.all: the fulfilment values, in the order of the input array
PromiseAllValues(settled, order) ==
    [k \in 1..Len(CallNames) |-> settled[CallNames[k]].value]

\* Promise.all after one more call has settled: rejected with the reason of
\* the first rejection, fulfilled when all four have fulfilled
PromiseAll(current, settled, order, c) ==
    IF current.state # "pending" THEN current
    ELSE IF settled[c].state = "rejected"
         THEN [state |-> "rejected", reason |-> settled[c].reason]
    ELSE IF \A k \in 1..Len(CallNames) :
                settled[CallNames[k]].state = "fulfilled"
         THEN [state |-> "fulfilled",
               values |-> PromiseAllValues(settled, order)]
    ELSE current

RECURSIVE PadStart(_, _)
\* while (str.length <= decimals) str = '0' + str
PadStart(str, decimals) ==
    IF Len(str) <= decimals THEN PadStart(<<"0">> \o str, decimals) ELSE str

RECURSIVE TrimWhole(_)
\* while (str[0] === '0' && str[1] !== '.') str = str.substring(1)
TrimWhole(str) ==
    IF Len(str) >= 2 /\ str[1] = "0" /\ str[2] # "."
    THEN TrimWhole(Tail(str)) ELSE str

RECURSIVE TrimFraction(_)
\* while (last === '0' && the one before !== '.') drop the last character
TrimFraction(str) ==
    IF Len(str) >= 2 /\ str[Len(str)] = "0" /\ str[Len(str) - 1] # "."
    THEN TrimFraction(SubSeq(str, 1, Len(str) - 1)) ELSE str

\* ethers.formatUnits(value, decimals) for a non-negative value: no decimal
\* point with 0 decimals, otherwise at least one digit on each side of it
formatUnits(value, decimals) ==
    IF decimals = 0 THEN Decimal(value)
    ELSE LET padded == PadStart(Decimal(value), decimals)
             index == Len(padded) - decimals
             pointed == SubSeq(padded, 1, index) \o <<".">>
                        \o SubSeq(padded, index + 1, Len(padded))
         IN  TrimFraction(TrimWhole(pointed))

\* String.prototype.replace(pattern, replacement) with a string pattern:
\* the first occurrence only
Replace(str, pattern, replacement) ==
    LET Occurs(k) == SubSeq(str, k, k + Len(pattern) - 1) = pattern
        Places == {k \in 1..(Len(str) - Len(pattern) + 1) : Occurs(k)}
    IN  IF Places = {} THEN str
        ELSE LET first == CHOOSE k \in Places : \A j \in Places : k <= j
             IN  SubSeq(str, 1, first - 1) \o replacement
                 \o SubSeq(str, first + Len(pattern), Len(str))

RECURSIVE DigitsValue(_)
DigitsValue(digits) ==
    IF digits = <<>> THEN 0
    ELSE 10 * DigitsValue(SubSeq(digits, 1, Len(digits) - 1))
         + HexVal(digits[Len(digits)])

RECURSIVE DropTrailingZeros(_)
DropTrailingZeros(digits) ==
    IF digits # <<>> /\ digits[Len(digits)] = "0"
    THEN DropTrailingZeros(SubSeq(digits, 1, Len(digits) - 1)) ELSE digits

\* Number(text) for digits with at most one decimal point: the whole part
\* and the significant digits of the fraction
NumberOfText(text) ==
    LET Points == {k \in 1..Len(text) : text[k] = "."}
    IN  IF Points = {} THEN [whole |-> DigitsValue(text), fraction |-> <<>>]
        ELSE LET point == CHOOSE k \in Points : TRUE
             IN  [whole |-> DigitsValue(SubSeq(text, 1, point - 1)),
                  fraction |->
                      DropTrailingZeros(SubSeq(text, point + 1, Len(text)))]

\* a whole number as a Number
NumberOfInt(n) == [whole |-> n, fraction |-> <<>>]

\* a === b for two values the calls resolved to, or a value and a string
StrictEquals(a, b) == a.type = b.type /\ a.v = b.v

\* variant: no try/catch, a rejection propagates to the caller
verifyContractFunctionality_NoCatch(settled, expectedToken) ==
    IF settled.state = "rejected" THEN THREW
    ELSE LET name == settled.values[1]
             symbol == settled.values[2]
             decimals == settled.values[3]
             totalSupply == settled.values[4]
         IN  IF decimals.type # "bigint" \/ totalSupply.type # "bigint"
             THEN THREW
             ELSE LET actualSupply ==
                          NumberOfText(Replace(
                              formatUnits(totalSupply.v, decimals.v),
                              <<".", "0">>, <<>>))
                      nameMatches ==
                          StrictEquals(name, JsString(expectedToken.name))
                      symbolMatches ==
                          StrictEquals(symbol, JsString(expectedToken.symbol))
                      decimalsMatches == decimals.v = expectedToken.decimals
                      supplyMatches ==
                          actualSupply = NumberOfInt(expectedToken.totalSupply)
                  IN  [responsive |-> TRUE,
                       name |-> [actual |-> name, matches |-> nameMatches],
                       symbol |-> [actual |-> symbol, matches |-> symbolMatches],
                       decimals |-> [actual |-> decimals.v,
                                     matches |-> decimalsMatches],
                       totalSupply |-> [actual |-> actualSupply,
                                        matches |-> supplyMatches],
                       allMatch |-> nameMatches /\ symbolMatches
                                    /\ decimalsMatches /\ supplyMatches]

\* verifyContractFunctionality lines 111-157, from the settled Promise.all:
\* a rejection, or an exception thrown while comparing (formatUnits rejects
\* a value that is not numeric), lands in the catch at lines 152-157
verifyContractFunctionality(settled, expectedToken) ==
    IF settled.state = "rejected"
    THEN [responsive |-> FALSE, error |-> settled.reason]
    ELSE LET name == settled.values[1]
             symbol == settled.values[2]
             decimals == settled.values[3]
             totalSupply == settled.values[4]
         IN  IF decimals.type # "bigint" \/ totalSupply.type # "bigint"
             THEN [responsive |-> FALSE, error |-> "invalid BigNumberish value"]
             ELSE LET actualSupply ==
                          NumberOfText(Replace(
                              formatUnits(totalSupply.v, decimals.v),
                              <<".", "0">>, <<>>))
                      nameMatches ==
                          StrictEquals(name, JsString(expectedToken.name))
                      symbolMatches ==
                          StrictEquals(symbol, JsString(expectedToken.symbol))
                      decimalsMatches == decimals.v = expectedToken.decimals
                      supplyMatches ==
                          actualSupply = NumberOfInt(expectedToken.totalSupply)
                  IN  [responsive |-> TRUE,
                       name |-> [actual |-> name, matches |-> nameMatches],
                       symbol |-> [actual |-> symbol, matches |-> symbolMatches],
                       decimals |-> [actual |-> decimals.v,
                                     matches |-> decimalsMatches],
                       totalSupply |-> [actual |-> actualSupply,
                                        matches |-> supplyMatches],
                       allMatch |-> nameMatches /\ symbolMatches
                                    /\ decimalsMatches /\ supplyMatches]

\* analyzeContractSecurity line 190
SizeLimit == 49152

\* variant: a string of exactly the limit length is warned about too
analyzeContractSecurity_AtLimit(code, length) ==
    LET meta == extractMetadata(code)
        hasMetadata == ~JsFalsy(meta)
    IN  [hasMetadata |-> hasMetadata,
         compilerVersion |->
             IF hasMetadata THEN inferCompilerVersion(code) ELSE NULL,
         hasSelfDestruct |-> FALSE,
         size |-> length,
         warnings |-> IF length >= SizeLimit THEN 1 ELSE 0]

\* analyzeContractSecurity lines 163-195 for code of the given length. The
\* words searched for at lines 183-184 contain letters that are not hex
\* digits, so hasSelfDestruct stays false for a hex string.
analyzeContractSecurity(code, length) ==
    LET meta == extractMetadata(code)
        hasMetadata == ~JsFalsy(meta)
    IN  [hasMetadata |-> hasMetadata,
         compilerVersion |->
             IF hasMetadata THEN inferCompilerVersion(code) ELSE NULL,
         hasSelfDestruct |-> FALSE,
         size |-> length,
         warnings |-> IF length > SizeLimit THEN 1 ELSE 0]

\* variant: the bytecode check is critical too
criticalChecks_WithBytecode == {"existence", "functionality", "bytecode"}

\* verifyContract line 354
criticalChecks == {"existence", "functionality"}

\* verifyContract lines 201-212; details is checks.bytecode.details
NewResult ==
    [success |-> FALSE,
     checks |-> [existence |-> "absent", functionality |-> "absent",
                 bytecode |-> "absent", compiler |-> "absent",
                 error |-> "absent"],
     details |-> [t |-> "unset"],
     summary |-> [passed |-> 0, failed |-> 0, warnings |-> 0]]

Verdict(passed) == IF passed THEN "passed" ELSE "failed"

\* summary.passed++ or summary.failed++
Count(summary, passed) ==
    IF passed THEN [summary EXCEPT !.passed = @ + 1]
    ELSE [summary EXCEPT !.failed = @ + 1]

\* verifyContract lines 246-359: the functionality, bytecode, warning and
\* compiler-version stages and the final assessment, applied to the result
\* after the existence stage; securityAnalysis is the value of line 274
Assess(result, func, securityAnalysis, expectedCompilerVersion) ==
    LET funcPassed == func.responsive /\ func.allMatch
        bytecodePassed ==
            securityAnalysis.hasMetadata
            /\ ~JsFalsy(securityAnalysis.compilerVersion)
        compilerPassed ==
            securityAnalysis.compilerVersion = expectedCompilerVersion
        checks == [result.checks EXCEPT
                      !.functionality = Verdict(funcPassed),
                      !.bytecode = Verdict(bytecodePassed),
                      !.compiler = Verdict(compilerPassed)]
        counted == Count(Count(Count(result.summary, funcPassed),
                               securityAnalysis.hasMetadata), compilerPassed)
        summary == [counted EXCEPT !.warnings = @ + securityAnalysis.warnings]
    IN  [success |-> \A check \in criticalChecks : checks[check] = "passed",
         checks |-> checks,
         details |-> securityAnalysis,
         summary |-> summary]

\* generateReport line 398
generateReport(result) == IF result.success THEN "PASSED" ELSE "FAILED"

\* the code kept by the model for each deployed contract: head and trailer
\* as a hex string, and the length of the whole string
DeployedCodes ==
    { [hex |-> ToHex(CodePart \o TrailerSolc), length |-> SizeLimit],
      [hex |-> ToHex(CodePart \o TrailerTruncated), length |-> SizeLimit + 1],
      [hex |-> ToHex(CodePart \o TrailerNoSolc), length |-> SizeLimit - 1],
      [hex |-> ToHex(CodePart \o TrailerSolc), length |-> 2 * SizeLimit] }

\* the expected tokens of the verification runs
ExpectedTokens == {cfg \in TokenConfigs : cfg.totalSupply = 1}

\* what expectedCompilerVersion can end up as at lines 309-335
ExpectedVersions ==
    { VersionString(0, 8, 20), VersionString(0, 8, 19) }

InitVM ==
    /\ pc = "idle"
    /\ explorersFile = "missing"
    /\ networkEntry = "none"
    /\ buildArtifact = FALSE
    /\ sourcesPresent = {}
    /\ encodable = FALSE
    /\ deploymentFile = "absent"
    /\ deployResult = "none"
    /\ apiKey = "unset"
    /\ apiUrl = "unset"
    /\ constructorArgs = [t |-> "unset"]
    /\ retryCount = 0
    /\ response = NoResponse
    /\ guid = NoGuid
    /\ i = 0
    /\ statusData = NoResponse
    /\ verified = "pending"
    /\ outcome = "none"
    /\ report = "none"
    /\ escaped = FALSE
    /\ graceWaits = 0
    /\ submissions = 0
    /\ backoffs = 0
    /\ pollWaits = 0
    /\ polls = 0
    /\ polledGuid = NoGuid
    /\ submitLog = <<>>
    /\ pendingSeen = 0
    /\ netFailure = "none"
    /\ bytecode = <<>>
    /\ metadata = [t |-> "unset"]
    /\ decoded = FALSE
    /\ prefixedMetadata = [t |-> "unset"]
    /\ compilerVersion = [t |-> "unset"]
    /\ prefixedVersion = [t |-> "unset"]
    /\ tokenConfig \in ExpectedTokens
    /\ compilePath = "none"
    /\ artifactOptimizer = [t |-> "unset"]
    /\ deployedArgs = <<>>
    /\ payload = [t |-> "unset"]
    /\ vmPc = "vm_getCode"
    /\ deployedCode = [t |-> "unset"]
    /\ calls = <<>>
    /\ settleOrder = <<>>
    /\ allPromise = [state |-> "none"]
    /\ functionality = [t |-> "unset"]
    /\ raised = FALSE
    /\ verificationResult = NewResult
    /\ reportStatus = "none"
    /\ ToolOff
    /\ CompilerIdle

\* verifyContract lines 221-241: getCode settles. A rejection lands in the
\* catch at lines 378-386; '0x' fails the existence check and returns;
\* otherwise existence passes and verifyContractFunctionality dispatches
\* the four calls (lines 112-119).
GetCodeSettles ==
    /\ vmPc = "vm_getCode"
    /\ \/ /\ verificationResult' =
               [verificationResult EXCEPT
                   !.checks.error = "failed", !.summary.failed = @ + 1]
          /\ vmPc' = "vm_done"
          /\ UNCHANGED <<deployedCode, calls, allPromise>>
       \/ /\ deployedCode' = [hex |-> <<>>, length |-> 0]
          /\ verificationResult' =
               [verificationResult EXCEPT
                   !.checks.existence = "failed", !.summary.failed = @ + 1]
          /\ vmPc' = "vm_done"
          /\ UNCHANGED <<calls, allPromise>>
       \/ /\ deployedCode' \in DeployedCodes
          /\ verificationResult' =
               [verificationResult EXCEPT
                   !.checks.existence = "passed", !.summary.passed = @ + 1]
          /\ calls' = [c \in {CallNames[k] : k \in 1..Len(CallNames)}
                         |-> PendingCall]
          /\ allPromise' = [state |-> "pending"]
          /\ vmPc' = "vm_calls"
    /\ UNCHANGED <<settleOrder, functionality, raised, reportStatus,
                   protoVars, metaVars, buildVars, toolVars, compileVars>>

\* one of the four read calls settles: fulfilled with an answer of the
\* contract, or rejected; Promise.all follows (line 114)
CallSettles ==
    /\ calls # <<>>
    /\ \E c \in DOMAIN calls :
         /\ calls[c].state = "pending"
         /\ \E settled \in
                 {[state |-> "fulfilled", value |-> v] : v \in Answers(c)}
                 \cup {[state |-> "rejected", reason |-> CallError(c)]} :
              /\ calls' = [calls EXCEPT ![c] = settled]
              /\ settleOrder' = Append(settleOrder, c)
              /\ allPromise' =
                   PromiseAll(allPromise, calls', settleOrder', c)
    /\ UNCHANGED <<vmPc, deployedCode, functionality, raised,
                   verificationResult, reportStatus,
                   protoVars, metaVars, buildVars, toolVars, compileVars>>

\* verifyContractFunctionality lines 121-157: Promise.all has settled, the
\* function returns its result to verifyContract (line 241)
FunctionalityReturns ==
    /\ vmPc = "vm_calls"
    /\ allPromise.state # "pending"
    /\ LET result == verifyContractFunctionality(allPromise, tokenConfig)
       IN  IF result = THREW
           THEN /\ raised' = TRUE
                /\ verificationResult' =
                     [verificationResult EXCEPT
                         !.checks.error = "failed", !.summary.failed = @ + 1]
                /\ vmPc' = "vm_done"
                /\ UNCHANGED functionality
           ELSE /\ functionality' = result
                /\ vmPc' = "vm_assess"
                /\ UNCHANGED <<raised, verificationResult>>
    /\ UNCHANGED <<deployedCode, calls, settleOrder, allPromise, reportStatus,
                   protoVars, metaVars, buildVars, toolVars, compileVars>>

\* verifyContract lines 246-376: the remaining stages run to the return
VerifyContractAssess ==
    /\ vmPc = "vm_assess"
    /\ \E expectedCompilerVersion \in ExpectedVersions :
         verificationResult' =
             Assess(verificationResult, functionality,
                    analyzeContractSecurity(deployedCode.hex,
                                            deployedCode.length),
                    expectedCompilerVersion)
    /\ vmPc' = "vm_done"
    /\ UNCHANGED <<deployedCode, calls, settleOrder, allPromise,
                   functionality, raised, reportStatus,
                   protoVars, metaVars, buildVars, toolVars, compileVars>>

\* generateReport lines 392-404, applied to the returned result
GenerateReport ==
    /\ vmPc = "vm_done"
    /\ reportStatus' = generateReport(verificationResult)
    /\ vmPc' = "vm_reported"
    /\ UNCHANGED <<deployedCode, calls, settleOrder, allPromise,
                   functionality, raised, verificationResult,
                   protoVars, metaVars, buildVars, toolVars, compileVars>>

NextVM ==
    \/ GetCodeSettles
    \/ CallSettles
    \/ FunctionalityReturns
    \/ VerifyContractAssess
    \/ GenerateReport

SpecVM == InitVM /\ [][NextVM]_vars

----------------------------------------------------------------------------
(* Properties of the submission loop and of status polling                 *)

\* the attempt is over: verifyContract has returned (or thrown)
Terminal == outcome # "none"

AllNotLocated(log) == \A k \in 1..Len(log) : SaysNotLocated(log[k])

\* C1: per verification attempt there are never more than 3 submissions
\* nor more than 2 ten-second backoffs; a resubmission is issued only
\* directly after a status '0' response whose result contains 'Unable to
\* locate ContractCode'; and when all three submissions are rejected that
\* way the attempt ends Failed without any status poll.
C1_BoundedResubmission ==
    /\ [](submissions <= 3 /\ backoffs <= 2)
    /\ [][(submissions' > submissions /\ submissions >= 1)
            => /\ Len(submitLog) = submissions
               /\ SaysNotLocated(submitLog[Len(submitLog)])
               /\ pc = "vc_backoff"]_vars
    /\ []((Len(submitLog) = 3 /\ AllNotLocated(submitLog))
            => /\ outcome = "Failed"
               /\ verified = "false"
               /\ polls = 0
               /\ pollWaits = 0)

C1_Witness ==
    /\ Len(submitLog) = 3
    /\ AllNotLocated(submitLog)
    /\ outcome = "Failed"
    /\ pc = "done"

\* C2: after two consecutive 'Unable to locate ContractCode' responses and
\* then a status '1' response carrying a GUID, exactly 3 submissions and
\* exactly 2 backoffs have happened, the attempt is polling (not ended by
\* the submission phase) and every status poll carries exactly that GUID.
C2_RetryThenPending ==
    (/\ Len(submitLog) = 3
     /\ SaysNotLocated(submitLog[1])
     /\ SaysNotLocated(submitLog[2])
     /\ submitLog[3].status = "1")
    => /\ submissions = 3
       /\ backoffs = 2
       /\ guid = submitLog[3].result
       /\ pollWaits >= 1
       /\ (pc = "cs_wait" => outcome = "none")
       /\ (polls >= 1 => polledGuid = submitLog[3].result)

C2_Witness ==
    /\ Len(submitLog) = 3
    /\ SaysNotLocated(submitLog[1])
    /\ SaysNotLocated(submitLog[2])
    /\ submitLog[3] = [status |-> "1", result |-> <<"abc123">>]
    /\ pc = "cs_poll"
    /\ polledGuid = <<"abc123">>
    /\ backoffs = 2

\* C3: at most 10 status polls are issued, each preceded by exactly one
\* 5-second wait; when all 10 responses say 'Pending in queue' the attempt
\* ends with the timeout outcome after exactly 10 poll cycles, and the
\* timeout outcome arises in no other way.
C3_PollBudget ==
    /\ polls <= 10
    /\ pollWaits = polls + (IF pc = "cs_wait" THEN 1 ELSE 0)
    /\ (pendingSeen = 10
          => outcome = "TimedOut" /\ polls = 10 /\ pollWaits = 10)
    /\ (outcome = "TimedOut"
          => pendingSeen = 10 /\ polls = 10 /\ verified = "false")

C3_Witness ==
    /\ pendingSeen = 10
    /\ polls = 10
    /\ outcome = "TimedOut"
    /\ pc = "done"

\* a status response has just been received (no exception)
PollAnswered ==
    pc = "cs_poll" /\ pc' # "cs_poll" /\ netFailure' = netFailure

\* C4: a status response with status '1' ends the attempt as Verified; one
\* that has neither status '1' nor result 'Pending in queue' ends it as
\* Failed; a 'Pending in queue' response (status not '1') received while
\* fewer than 10 polls were made does not end the attempt; and once the
\* attempt has ended no further poll or poll wait is issued.
C4_PollTransitions ==
    /\ [][PollAnswered =>
            /\ (statusData'.status = "1"
                  => outcome' = "Verified" /\ verified' = "true")
            /\ ((statusData'.status # "1"
                   /\ statusData'.result # <<PendingInQueue>>)
                  => outcome' = "Failed" /\ verified' = "false")
            /\ ((SaysPending(statusData') /\ polls < 10)
                  => outcome' = "none" /\ pc' = "cs_wait")]_vars
    /\ [][Terminal => (polls' = polls /\ pollWaits' = pollWaits)]_vars

C4_Witness ==
    /\ outcome = "Verified"
    /\ pendingSeen >= 2
    /\ polls = pendingSeen + 1
    /\ pc = "done"

\* a submission response has just been received (no exception)
SubmitAnswered ==
    pc = "vc_submit" /\ Len(submitLog') = Len(submitLog) + 1

\* C5: a submission response whose status is not '1' and whose result does
\* not contain 'Unable to locate ContractCode' ends the attempt as Failed
\* in that very step, and after a Failed outcome there is no submission,
\* no backoff, no poll wait and no poll.
C5_OtherRejectionTerminal ==
    /\ [][(/\ SubmitAnswered
           /\ response'.status # "1"
           /\ ~Includes(response'.result, UnableToLocate))
            => /\ outcome' = "Failed"
               /\ verified' = "false"
               /\ pc' = "av_result"
               /\ backoffs' = backoffs]_vars
    /\ [][outcome = "Failed"
            => /\ submissions' = submissions
               /\ backoffs' = backoffs
               /\ pollWaits' = pollWaits
               /\ polls' = polls
               /\ outcome' = "Failed"]_vars

C5_Witness ==
    /\ Len(submitLog) = 1
    /\ submitLog[1] = [status |-> "0", result |-> <<"Fail - Unable to verify">>]
    /\ outcome = "Failed"
    /\ submissions = 1
    /\ pc = "done"

\* the value verifyContract returns for a rejected (Failed) attempt,
\* ContractVerifier.js lines 100 and 220
FailedReturn == "false"

\* C6: an attempt whose poll budget ran out while the job was still
\* pending (TimedOut) gives the caller of verifyContract something other
\* than what a rejected (Failed) attempt gives it, and the caller does not
\* report it as a failed verification.
C6_TimedOutDistinct ==
    outcome = "TimedOut"
    => /\ verified # FailedReturn
       /\ (report # "none" => report # "failed")

\* C7: a network call that throws during submission or during a status
\* poll ends the attempt as Failed with verifyContract returning false;
\* the exception leaves neither verifyContract nor attemptVerification,
\* deploy() does not throw, and when deploy() finishes it has returned the
\* deployment info.
C7_NetworkFailureContained ==
    netFailure # "none"
    => /\ outcome = "Failed"
       /\ verified = "false"
       /\ ~escaped
       /\ report \in {"none", "failed"}
       /\ deployResult # "thrown"
       /\ (pc = "done" => deployResult = deploymentInfo)

C7_Witness ==
    /\ netFailure = "poll"
    /\ polls >= 2
    /\ pc = "done"
    /\ deployResult = deploymentInfo

\* C8 as stated: an attempt that met a failing network call becomes
\* terminal only once the retries are used up (3 submissions for a failing
\* submission, 10 polls for a failing poll).
C8_TransientRetried ==
    (Terminal /\ netFailure # "none")
    => /\ (netFailure = "submit" => submissions = 3)
       /\ (netFailure = "poll" => polls = 10)

\* C8 amended: only a 'not located' rejection of a submission is retried
\* (a backoff starts only on such a response, never on an exception); the
\* first network call that throws ends the attempt as Failed in that very
\* step, and no submission, backoff, poll wait or poll follows it.
C8_OnlyNotLocatedRetried ==
    /\ [][backoffs' > backoffs
            => SaysNotLocated(response') /\ netFailure' = "none"]_vars
    /\ [][netFailure' # netFailure
            => /\ netFailure = "none"
               /\ outcome' = "Failed"
               /\ verified' = "false"
               /\ pc' = "av_result"
               /\ submissions' = submissions
               /\ backoffs' = backoffs]_vars
    /\ [][netFailure # "none"
            => /\ submissions' = submissions
               /\ backoffs' = backoffs
               /\ pollWaits' = pollWaits
               /\ polls' = polls]_vars

C8_Witness ==
    /\ netFailure = "submit"
    /\ submissions = 2
    /\ backoffs = 1
    /\ outcome = "Failed"
    /\ pc = "done"

\* C9: when no API key is configured for the chain (explorers.json missing
\* or unreadable, or without an entry for the chain id) the attempt ends
\* as skipped: verifyContract is not called, there is no grace wait, no
\* submission and no poll, no exception, no failure report, and deploy()
\* goes on to return the deployment info.
C9_NoKeySkips ==
    (/\ explorersFile \in {"missing", "unreadable", "noEntry"}
     /\ pc \in {"vc_start", "vc_grace", "vc_submit", "vc_backoff", "cs_wait",
                "cs_poll", "av_result", "av_enter", "d_return"}
        \/ (pc = "done" /\ deploymentFile # "absent"))
    => /\ outcome = "Skipped"
       /\ apiKey = "null"
       /\ apiUrl = "unset"
       /\ verified = "pending"
       /\ graceWaits = 0
       /\ submissions = 0
       /\ pollWaits = 0
       /\ polls = 0
       /\ ~escaped
       /\ report = "none"
       /\ deployResult # "thrown"
       /\ pc \in {"d_return", "done"}
       /\ (pc = "done" => deployResult = deploymentInfo)

C9_Witness ==
    /\ explorersFile = "unreadable"
    /\ outcome = "Skipped"
    /\ pc = "done"
    /\ deployResult = deploymentInfo

----------------------------------------------------------------------------
(* Properties of the metadata decoder                                      *)

\* the bytecode is a whole number of bytes and has a 2-byte length field
HasLengthField(bc) ==
    /\ Len(bc) >= 4
    /\ Len(bc) % 2 = 0
    /\ \A k \in 1..Len(bc) : IsHex(bc[k])

\* the trailing 2 bytes read as a big-endian number
TrailingLength(bc) ==
    4096 * HexVal(bc[Len(bc) - 3]) + 256 * HexVal(bc[Len(bc) - 2])
    + 16 * HexVal(bc[Len(bc) - 1]) + HexVal(bc[Len(bc)])

\* C10: for every bytecode whose trailing 2-byte big-endian length field L
\* satisfies L + 2 > total length in bytes, extractMetadata reports the
\* metadata absent (null), whatever the preceding bytes are.
C10_OverlongTrailerAbsent ==
    (/\ decoded
     /\ HasLengthField(bytecode)
     /\ TrailingLength(bytecode) + 2 > Len(bytecode) \div 2)
    => metadata = NULL

\* C11: for every bytecode string shorter than 4 hex characters, the empty
\* string included, extractMetadata returns "no metadata" (null) and does
\* not throw.
C11_ShortBytecodeAbsent ==
    (decoded /\ Len(bytecode) < 4) => metadata = NULL

C11_Witness ==
    /\ decoded
    /\ Len(bytecode) = 3
    /\ metadata = NULL

\* C12: the decoder gives the same result for a bytecode string with a
\* leading '0x' as for the same string without it: extractMetadata and
\* inferCompilerVersion agree on '0x' + b and b, for every b.
C12_PrefixIrrelevant ==
    decoded => /\ prefixedMetadata = metadata
               /\ prefixedVersion = compilerVersion

\* the decoded metadata is an object whose solc entry is exactly 3 bytes
HasSolc3(m) ==
    /\ m.t = "map"
    /\ \A k \in 1..Len(m.v) : m.v[k][1].t = "text"
    /\ \E k \in 1..Len(m.v) :
         /\ m.v[k][1].v = <<115, 111, 108, 99>>
         /\ \A j \in (k + 1)..Len(m.v) : m.v[j][1].v # <<115, 111, 108, 99>>
         /\ m.v[k][2].t = "bytes"
         /\ Len(m.v[k][2].v) = 3

\* C13: inferCompilerVersion returns the string "major.minor.patch"
\* exactly when the decoded metadata has a solc value of exactly 3 bytes
\* (bytes 0, 8, 20 give "0.8.20"); in every other case (no metadata, no
\* solc key, solc of another length or type) it returns null, also when
\* metadata is present.
C13_VersionFromThreeBytes ==
    decoded =>
      /\ (HasSolc3(metadata) <=> compilerVersion # NULL)
      /\ (compilerVersion # NULL =>
            /\ compilerVersion.t = "string"
            /\ \E k \in 1..Len(metadata.v) :
                 /\ metadata.v[k][1].v = <<115, 111, 108, 99>>
                 /\ compilerVersion.v =
                      Decimal(metadata.v[k][2].v[1]) \o <<".">>
                      \o Decimal(metadata.v[k][2].v[2]) \o <<".">>
                      \o Decimal(metadata.v[k][2].v[3]))
      /\ (bytecode = ToHex(CodePart \o TrailerSolc) =>
            compilerVersion.v = <<"0", ".", "8", ".", "2", "0">>)
      /\ (bytecode = ToHex(CodePart \o TrailerIpfsSolc) =>
            compilerVersion.v = <<"0", ".", "1", "2", ".", "2", "6">>)

C13_Witness ==
    /\ decoded
    /\ bytecode = ToHex(CodePart \o TrailerSolc)
    /\ compilerVersion = [t |-> "string", v |-> <<"0", ".", "8", ".", "2", "0">>]

C13_WitnessOtherLength ==
    /\ decoded
    /\ bytecode = ToHex(CodePart \o TrailerSolc4)
    /\ metadata # NULL
    /\ compilerVersion = NULL

\* the attempt has gone past the preparation of the payload
Prepared == graceWaits >= 1 /\ pc # "vc_grace"

\* C17: for every token configuration, the four constructor values encoded
\* for verification equal, in the same order, the four values deploy()
\* passed to the constructor: name, symbol, decimals and
\* totalSupply * 10^decimals.
C17_SameConstructorValues ==
    constructorArgs.t = "hex"
    => /\ constructorArgs.values = deployedArgs
       /\ constructorArgs.values =
            <<tokenConfig.name, tokenConfig.symbol, tokenConfig.decimals,
              tokenConfig.totalSupply * (10 ^ tokenConfig.decimals)>>
       /\ payload.constructorArguments = constructorArgs

C17_Witness ==
    /\ constructorArgs.t = "hex"
    /\ tokenConfig.decimals = 2
    /\ tokenConfig.totalSupply = 3
    /\ deployedArgs = <<"Token", "TKN", 2, 300>>

\* C18: when ABI-encoding the constructor arguments fails,
\* encodeConstructorArgs returns the empty string without throwing, and the
\* attempt still proceeds to the submission step with empty constructor
\* arguments instead of ending Failed.
C18_EncodingFailureProceeds ==
    (Prepared /\ ~encodable /\ buildArtifact /\ sourcesPresent = SourceFiles)
    => /\ constructorArgs = [t |-> "empty"]
       /\ payload.constructorArguments = [t |-> "empty"]
       /\ submissions >= 1
       /\ (submissions = 1 /\ pc = "vc_submit" => outcome = "none")

C18_Witness ==
    /\ ~encodable
    /\ pc = "vc_submit"
    /\ submissions = 1
    /\ constructorArgs = [t |-> "empty"]

\* C19: if any required source file of the compilation unit is missing,
\* reconstruction raises an error that reaches the caller of the
\* verification attempt as an exception, not as an ordinary failed result;
\* no submission is sent in that attempt.
C19_MissingSourceRaises ==
    (Prepared /\ buildArtifact /\ sourcesPresent # SourceFiles)
    => /\ escaped
       /\ verified = "threw"
       /\ outcome # "Failed"
       /\ submissions = 0

\* C20: the optimizer settings in the compilation unit and in the
\* submission payload (enabled, 200 runs) equal the settings with which the
\* deployed bytecode was compiled, for every compile path (solc CLI, solcjs
\* CLI, programmatic solc, reused build file).
C20_OptimizerSettingsMatch ==
    submissions >= 1
    => /\ payload.sourceCode.optimizer = artifactOptimizer
       /\ (payload.optimizationUsed = "1") = artifactOptimizer.enabled
       /\ payload.runs = "200"
       /\ artifactOptimizer.runs = 200

----------------------------------------------------------------------------
(* Properties of VerificationManager                                       *)

\* verifyContractFunctionality has returned a result
FunctionalityKnown == functionality # [t |-> "unset"]

\* the four calls were dispatched and all of them have fulfilled
AllFulfilled ==
    /\ calls # <<>>
    /\ \A c \in DOMAIN calls : calls[c].state = "fulfilled"

\* the contract answered with the expected configuration
ReturnsExpected ==
    /\ AllFulfilled
    /\ calls["name"].value.v = tokenConfig.name
    /\ calls["symbol"].value.v = tokenConfig.symbol
    /\ calls["decimals"].value.v = tokenConfig.decimals
    /\ calls["totalSupply"].value.v =
         tokenConfig.totalSupply * (10 ^ tokenConfig.decimals)

\* C14: verifyContractFunctionality yields responsive = true and
\* allMatch = true exactly when the four read calls return the expected
\* configuration: name and symbol equal, decimals equal as integers, and
\* on-chain totalSupply equal to expected totalSupply * 10^decimals.
C14_AllMatchIffExpected ==
    FunctionalityKnown
    => ((functionality.responsive /\ functionality.allMatch)
        <=> ReturnsExpected)

\* C15: if any of the four concurrently dispatched read calls fails, then
\* in whatever order the calls complete or fail, verifyContractFunctionality
\* returns responsive = false with a non-empty error message and raises no
\* exception; when all four succeed its result is that of the four answers
\* taken by name, whatever their completion order.
C15_CallFailureContained ==
    /\ ~raised
    /\ (calls # <<>> /\ vmPc # "vm_calls") => FunctionalityKnown
    /\ FunctionalityKnown =>
         /\ (\E c \in DOMAIN calls : calls[c].state = "rejected")
            => /\ functionality.responsive = FALSE
               /\ functionality.error # ""
               /\ \E c \in DOMAIN calls :
                    /\ calls[c].state = "rejected"
                    /\ functionality.error = calls[c].reason
         /\ AllFulfilled
            => /\ functionality.responsive
               /\ functionality.name.actual = calls["name"].value
               /\ functionality.symbol.actual = calls["symbol"].value
               /\ functionality.decimals.actual = calls["decimals"].value.v
               /\ functionality.name.matches
                    = (calls["name"].value.v = tokenConfig.name)
               /\ functionality.symbol.matches
                    = (calls["symbol"].value.v = tokenConfig.symbol)
               /\ functionality.decimals.matches
                    = (calls["decimals"].value.v = tokenConfig.decimals)
               /\ (ReturnsExpected => functionality.allMatch)

C15_Witness ==
    /\ FunctionalityKnown
    /\ functionality.responsive = FALSE
    /\ settleOrder = <<"totalSupply", "symbol", "decimals", "name">>
    /\ calls["decimals"].state = "rejected"
    /\ calls["name"].state = "fulfilled"

C15_WitnessReversedOrder ==
    /\ FunctionalityKnown
    /\ settleOrder = <<"totalSupply", "decimals", "symbol", "name">>
    /\ AllFulfilled
    /\ functionality.allMatch

\* VerificationManager.verifyContract has returned
VmReturned == vmPc \in {"vm_done", "vm_reported"}

\* both critical checks passed
CriticalPassed ==
    /\ verificationResult.checks.existence = "passed"
    /\ verificationResult.checks.functionality = "passed"

\* C16: the overall verdict of VerificationManager.verifyContract
\* (result.success, and the report status from generateReport) is
\* true/PASSED exactly when both the existence check and the functionality
\* check passed; the bytecode check, the compiler-version check and the
\* warnings never change it.
C16_VerdictFromCriticalChecks ==
    /\ VmReturned => (verificationResult.success <=> CriticalPassed)
    /\ vmPc = "vm_reported"
       => /\ reportStatus \in {"PASSED", "FAILED"}
          /\ (reportStatus = "PASSED") <=> CriticalPassed

C16_Witness ==
    /\ vmPc = "vm_reported"
    /\ reportStatus = "PASSED"
    /\ verificationResult.checks.bytecode = "failed"
    /\ verificationResult.checks.compiler = "failed"
    /\ verificationResult.summary.warnings = 1

\* the bytecode stage of verifyContract has run
Analysed == VmReturned /\ verificationResult.details # [t |-> "unset"]

\* C21: analyzeContractSecurity adds the size warning for every bytecode
\* string of hex length 49153 or greater and for none of hex length 49152
\* or less.
C21_SizeWarningAbove49152 ==
    Analysed
    => /\ verificationResult.details.size = deployedCode.length
       /\ (deployedCode.length >= 49153
             => /\ verificationResult.details.warnings = 1
                /\ verificationResult.summary.warnings = 1)
       /\ (deployedCode.length <= 49152
             => /\ verificationResult.details.warnings = 0
                /\ verificationResult.summary.warnings = 0)

C21_Witness ==
    /\ Analysed
    /\ deployedCode.length = 49153
    /\ verificationResult.details.warnings = 1

C21_WitnessAtLimit ==
    /\ Analysed
    /\ deployedCode.length = 49152
    /\ verificationResult.details.warnings = 0

\* the four stages of VerificationManager.verifyContract
Stages == {"existence", "functionality", "bytecode", "compiler"}

\* C24: in VerificationManager.verifyContract each stage catches its own
\* failure and records it in result.checks, and the later stages still
\* run: whatever fails, every stage has its entry when verifyContract
\* returns, and verifyContract never throws.
C24_EveryStageRecorded ==
    VmReturned
    => \A stage \in Stages : verificationResult.checks[stage] # "absent"

\* C26: on every return path of VerificationManager.verifyContract,
\* summary.passed is the number of entries of result.checks whose passed
\* flag is truthy and summary.failed the number of entries whose passed
\* flag is falsy.
C26_SummaryCountsChecks ==
    VmReturned
    => /\ verificationResult.summary.passed =
            Cardinality({c \in DOMAIN verificationResult.checks :
                            verificationResult.checks[c] = "passed"})
       /\ verificationResult.summary.failed =
            Cardinality({c \in DOMAIN verificationResult.checks :
                            verificationResult.checks[c] = "failed"})

----------------------------------------------------------------------------
(* C22: the indexing wait precedes the first submission, once per attempt  *)

\* C22: once a submission has been sent the 15 s timer has been started
\* exactly once and has already fired; no run starts it a second time, so
\* resubmissions are not preceded by another grace wait.
C22_GraceWaitOnceBeforeSubmission ==
    /\ graceWaits <= 1
    /\ submissions >= 1 => graceWaits = 1 /\ pc # "vc_grace"

\* a resubmission has been sent and the timer count is still one
C22_Witness == submissions >= 2 /\ graceWaits = 1 /\ backoffs >= 1

----------------------------------------------------------------------------
(* C23: every verification attempt ends                                    *)

\* The steps of one attempt that wait for a network call or a timer. Each
\* of them is taken once it is enabled: fetch settles (ContractVerifier.js
\* lines 200 and 209) and setTimeout fires (lines 42, 82 and 207).
Fairness ==
    /\ WF_vars(AttemptVerification)
    /\ WF_vars(VerifyContractStart)
    /\ WF_vars(VerifyContractPrepare)
    /\ WF_vars(SubmitResponse)
    /\ WF_vars(BackoffDone)
    /\ WF_vars(PollSend)
    /\ WF_vars(PollResponse)

SpecLive == Spec /\ Fairness

Attempting == pc = "av_start"

AttemptEnded ==
    /\ outcome \in {"Verified", "Failed", "TimedOut", "Skipped", "Unsupported"}
    /\ pc \in {"av_result", "av_enter", "d_return", "done"}

\* C23: an attempt that has started eventually reaches one of the terminal
\* outcomes (verified, failed, timed out, skipped), when every network call
\* and timer eventually returns or fails; on the way it sends at most 3
\* submissions and at most 10 status polls.
C23_AttemptTerminates ==
    /\ [](submissions <= maxRetries /\ polls <= MaxPolls)
    /\ Attempting ~> AttemptEnded

\* the longest attempt: three submissions, ten polls, then the timeout
C23_Witness ==
    AttemptEnded /\ outcome = "TimedOut" /\ submissions = maxRetries /\ polls = MaxPolls

----------------------------------------------------------------------------
(* C25: a chain without block explorer                                     *)

EndpointResolved == apiUrl # "unset"

\* C25: verifyContract goes on to the grace wait exactly when the chain's
\* network entry has a valid explorer URL; for a chain without one the
\* attempt ends without grace wait, submission or exception, and what the
\* user is told is not that the verification failed.
C25_NoExplorerIsSkipped ==
    EndpointResolved =>
        /\ graceWaits >= 1 <=> networkEntry = "ok"
        /\ networkEntry # "ok" =>
              /\ graceWaits = 0
              /\ submissions = 0
              /\ ~escaped
              /\ report # "failed"

----------------------------------------------------------------------------
(* C27: deployment.json and verification                                   *)

BeforeConfirmation == pc \in {"d_compile", "d_confirm"}

VerificationPhase ==
    pc \in {"av_start", "vc_start", "vc_grace", "vc_submit", "vc_backoff",
            "cs_wait", "cs_poll", "av_result", "av_enter", "d_return"}

\* C27: deployment.json is absent until the deployment is confirmed and
\* holds the deployment info from the moment verification starts; no step
\* of the verification changes it, whatever its outcome, and a deploy()
\* that went through verification returns that same info.
C27_SavedBeforeVerification ==
    /\ [](BeforeConfirmation => deploymentFile = "absent")
    /\ [](VerificationPhase => deploymentFile = deploymentInfo)
    /\ [][VerificationPhase => deploymentFile' = deploymentFile]_vars
    /\ [](pc = "done" /\ outcome # "none" => deployResult = deploymentFile)

\* deploy() has returned after a verification that ended without success
C27_Witness ==
    /\ pc = "done"
    /\ outcome \in {"Failed", "TimedOut"}
    /\ deployResult = deploymentInfo
    /\ deploymentFile = deploymentInfo

----------------------------------------------------------------------------
(* index.js: the interactive tool's selection, configuration and balance   *)

\* wallets.json as the WalletManager holds it: the address indexes added to
\* each wallet (part_002 lines 53-59; the prompt offers "0, 1, 2...")
WalletAddresses == [main |-> {0, 1}, spare |-> {2}]

WalletNames == DOMAIN WalletAddresses

\* networks and RPC URLs offered by selectActiveNetwork
NetworkNames == {"mainnet", "sepolia"}

RpcUrls == {"https://rpc.example", "https://rpc.example/YOUR-PROJECT-ID"}

\* the most restore timers pending at one moment (calls within 5 s)
MaxTimers == 3

\* JavaScript truthiness of a field value: null, 0 and '' are falsy
JsTruthy(val) ==
    /\ val.type # "null"
    /\ val.type = "number" => val.v # 0
    /\ val.type = "string" => val.v # ""

\* index.js lines 636-639: value || null
OrNull(val) == IF JsTruthy(val) THEN val ELSE JsNull

\* part_002 lines 87-99 getAddress: null for an unknown wallet or index,
\* otherwise the address derived from the seed phrase and the index
getAddress(walletName, addressIndex) ==
    IF walletName.type # "string" \/ walletName.v \notin WalletNames
    THEN JsNull
    ELSE IF addressIndex.type # "number"
            \/ addressIndex.v \notin WalletAddresses[walletName.v]
    THEN JsNull
    ELSE JsString(<<"address", walletName.v, addressIndex.v>>)

\* index.js lines 614-619, 626: the object written to config.json; JSON
\* keeps null, numbers and strings as they are
config ==
    [activeWallet |-> activeWallet, activeAddressIndex |-> activeAddressIndex,
     activeNetwork |-> activeNetwork, activeRpcUrl |-> activeRpcUrl]

\* index.js lines 613-630 saveConfiguration, for the fields as they will be
\* after the selection: the file is written, or the write fails and the
\* error is ignored
saveConfiguration(written) ==
    IF written
    THEN /\ configFile' = config'
         /\ atSave' = config'
         /\ sinceSave' = "saved"
    ELSE /\ sinceSave' = "none"
         /\ UNCHANGED <<configFile, atSave>>

\* index.js lines 632-651 loadConfiguration on fields the constructor has
\* just set to null
loadConfiguration(readable) ==
    IF configFile # NoFile /\ readable
    THEN LET wallet == OrNull(configFile.activeWallet)
             index == OrNull(configFile.activeAddressIndex)
         IN  /\ activeWallet' = wallet
             /\ activeAddressIndex' = index
             /\ activeNetwork' = OrNull(configFile.activeNetwork)
             /\ activeRpcUrl' = OrNull(configFile.activeRpcUrl)
             /\ activeAddress' = IF JsTruthy(wallet) /\ index.type # "null"
                                 THEN getAddress(wallet, index)
                                 ELSE JsNull
    ELSE /\ activeWallet' = JsNull
         /\ activeAddressIndex' = JsNull
         /\ activeNetwork' = JsNull
         /\ activeRpcUrl' = JsNull
         /\ activeAddress' = JsNull

\* the silent functions installed at lines 671-673
SilentConsole == [warn |-> "() => {}", error |-> "() => {}", log |-> "() => {}"]

\* the tool has just been started with no configuration file
InitTool ==
    /\ pc = "idle"
    /\ explorersFile = "missing"
    /\ networkEntry = "none"
    /\ buildArtifact = FALSE
    /\ sourcesPresent = {}
    /\ encodable = FALSE
    /\ deploymentFile = "absent"
    /\ deployResult = "none"
    /\ apiKey = "unset"
    /\ apiUrl = "unset"
    /\ constructorArgs = [t |-> "unset"]
    /\ retryCount = 0
    /\ response = NoResponse
    /\ guid = NoGuid
    /\ i = 0
    /\ statusData = NoResponse
    /\ verified = "pending"
    /\ outcome = "none"
    /\ report = "none"
    /\ escaped = FALSE
    /\ graceWaits = 0
    /\ submissions = 0
    /\ backoffs = 0
    /\ pollWaits = 0
    /\ polls = 0
    /\ polledGuid = NoGuid
    /\ submitLog = <<>>
    /\ pendingSeen = 0
    /\ netFailure = "none"
    /\ bytecode = <<>>
    /\ metadata = [t |-> "unset"]
    /\ decoded = FALSE
    /\ prefixedMetadata = [t |-> "unset"]
    /\ compilerVersion = [t |-> "unset"]
    /\ prefixedVersion = [t |-> "unset"]
    /\ tokenConfig = NoConfig
    /\ compilePath = "none"
    /\ artifactOptimizer = [t |-> "unset"]
    /\ deployedArgs = <<>>
    /\ payload = [t |-> "unset"]
    /\ vmPc = "idle"
    /\ deployedCode = [t |-> "unset"]
    /\ calls = <<>>
    /\ settleOrder = <<>>
    /\ allPromise = [state |-> "none"]
    /\ functionality = [t |-> "unset"]
    /\ raised = FALSE
    /\ verificationResult = NewResult
    /\ reportStatus = "none"
    /\ activeWallet = JsNull
    /\ activeAddress = JsNull
    /\ activeAddressIndex = JsNull
    /\ activeNetwork = JsNull
    /\ activeRpcUrl = JsNull
    /\ configFile = NoFile
    /\ atSave = NoSelection
    /\ sinceSave = "none"
    /\ console = InstalledConsole
    /\ timers = <<>>
    /\ originals = InstalledConsole
    /\ balancePc = "idle"
    /\ CompilerIdle

\* index.js lines 284-310 selectActiveWallet: the user picks a wallet and
\* one of its addresses; the fields are set and the configuration is saved.
SelectActiveWallet ==
    /\ balancePc = "idle"
    /\ \E wallet \in WalletNames, written \in BOOLEAN :
         \E index \in WalletAddresses[wallet] :
            /\ activeWallet' = JsString(wallet)
            /\ activeAddress' = getAddress(JsString(wallet), JsNumber(index))
            /\ activeAddressIndex' = JsNumber(index)
            /\ UNCHANGED <<activeNetwork, activeRpcUrl>>
            /\ saveConfiguration(written)
    /\ UNCHANGED <<console, timers, originals, balancePc, compileVars, protoVars, metaVars,
                   buildVars, vmVars>>

\* index.js lines 321-357 selectActiveNetwork: the user picks a network and
\* one of its RPC URLs; the fields are set and the configuration is saved.
SelectActiveNetwork ==
    /\ balancePc = "idle"
    /\ \E network \in NetworkNames, rpcUrl \in RpcUrls, written \in BOOLEAN :
            /\ activeNetwork' = JsString(network)
            /\ activeRpcUrl' = JsString(rpcUrl)
            /\ UNCHANGED <<activeWallet, activeAddress, activeAddressIndex>>
            /\ saveConfiguration(written)
    /\ UNCHANGED <<console, timers, originals, balancePc, compileVars, protoVars, metaVars,
                   buildVars, vmVars>>

\* index.js lines 15-27: the tool is started again; a new process has its
\* own console and no timers, the constructor clears the fields and calls
\* loadConfiguration.
Restart ==
    /\ balancePc = "idle"
    /\ \E readable \in BOOLEAN :
         /\ loadConfiguration(readable)
         /\ sinceSave' = IF sinceSave # "none" /\ readable THEN "reloaded"
                         ELSE "none"
    /\ console' = InstalledConsole
    /\ timers' = <<>>
    /\ originals' = InstalledConsole
    /\ UNCHANGED <<configFile, atSave, balancePc, compileVars, protoVars, metaVars,
                   buildVars, vmVars>>

\* lines 660-665: the quick check of the RPC URL
InvalidApiKey(rpcUrl) == rpcUrl.v = "https://rpc.example/YOUR-PROJECT-ID"

\* index.js lines 47-48 and 654-682: showMainMenu calls getNativeBalance.
\* Without a complete selection or with a placeholder URL it returns at
\* once; otherwise it keeps the console functions installed now, installs
\* silent ones, starts the 5 s restore timer and awaits the balance.
GetNativeBalanceStart ==
    /\ balancePc = "idle"
    /\ JsTruthy(activeWallet) /\ JsTruthy(activeAddress)
    /\ JsTruthy(activeNetwork) /\ JsTruthy(activeRpcUrl)
    /\ IF InvalidApiKey(activeRpcUrl)
       THEN UNCHANGED <<console, timers, originals, balancePc>>
       ELSE /\ Len(timers) < MaxTimers
            /\ originals' = console
            /\ console' = SilentConsole
            /\ timers' = Append(timers, console)
            /\ balancePc' = "running"
    /\ UNCHANGED <<activeWallet, activeAddress, activeAddressIndex,
                   activeNetwork, activeRpcUrl, configFile, atSave, sinceSave,
                   compileVars, protoVars, metaVars, buildVars, vmVars>>

\* index.js lines 684-721: the race between getBalance and the 1.5 s
\* timeout settles. On success the kept functions are installed again; in
\* the catch block the console is left as it is.
GetNativeBalanceSettles ==
    /\ balancePc = "running"
    /\ \E fulfilled \in BOOLEAN :
         console' = IF fulfilled THEN originals ELSE console
    /\ balancePc' = "idle"
    /\ UNCHANGED <<activeWallet, activeAddress, activeAddressIndex,
                   activeNetwork, activeRpcUrl, configFile, atSave, sinceSave,
                   timers, originals, compileVars, protoVars, metaVars, buildVars, vmVars>>

\* index.js lines 677-681: the oldest restore timer fires and installs the
\* functions its call had kept. The timer of a call that is still awaiting
\* its 1.5 s race has not run its 5 s yet.
RestoreTimerFires ==
    /\ balancePc \in {"idle", "running"}
    /\ timers # <<>>
    /\ balancePc = "running" => Len(timers) > 1
    /\ console' = Head(timers)
    /\ timers' = Tail(timers)
    /\ UNCHANGED <<activeWallet, activeAddress, activeAddressIndex,
                   activeNetwork, activeRpcUrl, configFile, atSave, sinceSave,
                   originals, balancePc, compileVars, protoVars, metaVars, buildVars,
                   vmVars>>

NextTool ==
    \/ SelectActiveWallet
    \/ SelectActiveNetwork
    \/ Restart
    \/ GetNativeBalanceStart
    \/ GetNativeBalanceSettles
    \/ RestoreTimerFires

SpecTool == InitTool /\ [][NextTool]_vars

----------------------------------------------------------------------------
(* C28: the console after balance checks                                   *)

\* no balance check is running and no restore timer is pending
Quiet == balancePc = "idle" /\ timers = <<>>

\* C28: once every getNativeBalance call has returned and every restore
\* timer has fired, console.log, console.warn and console.error are the
\* functions that were installed before the first call.
C28_ConsoleRestored == Quiet => console = InstalledConsole

----------------------------------------------------------------------------
(* C29: configuration round trip                                           *)

\* C29: after a successful save and a restart the tool has the saved
\* wallet, address index, network and RPC URL again, and an address when a
\* wallet had been selected.
C29_ConfigurationRoundTrip ==
    sinceSave = "reloaded" =>
        /\ StrictEquals(activeWallet, atSave.activeWallet)
        /\ StrictEquals(activeAddressIndex, atSave.activeAddressIndex)
        /\ StrictEquals(activeNetwork, atSave.activeNetwork)
        /\ StrictEquals(activeRpcUrl, atSave.activeRpcUrl)
        /\ atSave.activeWallet.type # "null" => activeAddress.type # "null"

----------------------------------------------------------------------------
(* compile.js: compile() over successive calls and source edits            *)

\* the contracts declared in contracts/Token.sol (analyzeContract)
Contracts == {"Token", "Helper"}

\* how many contents the source file takes in a run
MaxVersions == 3

\* abi and bytecode of one contract compiled from one content of the file
Artifact(contract, version) == [contract |-> contract, version |-> version]

\* compile lines 454-527 for targetContract: what the call returns. The
\* abi and bytecode are those read from the build file when it is reused
\* (lines 461-474), those of universalCompile otherwise (lines 483-508).
compileResult(existing, targetContract, version, working) ==
    LET result == compile(existing, working)
    IN  IF ~result.success THEN [success |-> FALSE]
        ELSE [success |-> TRUE,
              contractName |-> targetContract,
              path |-> result.path,
              artifact |-> IF result.path = "reused" THEN existing.artifact
                           ELSE Artifact(targetContract, version)]

\* compile lines 487-497: what ./build/<name>.json holds after the call
compileWrites(existing, targetContract, version, working) ==
    LET result == compile(existing, working)
    IN  IF result.success /\ result.path # "reused"
        THEN [valid |-> TRUE, optimizer |-> result.optimizer,
              artifact |-> Artifact(targetContract, version)]
        ELSE existing

\* nothing has been compiled yet and the build directory is empty
InitBuild ==
    /\ pc = "idle"
    /\ explorersFile = "missing"
    /\ networkEntry = "none"
    /\ buildArtifact = FALSE
    /\ sourcesPresent = {}
    /\ encodable = FALSE
    /\ deploymentFile = "absent"
    /\ deployResult = "none"
    /\ apiKey = "unset"
    /\ apiUrl = "unset"
    /\ constructorArgs = [t |-> "unset"]
    /\ retryCount = 0
    /\ response = NoResponse
    /\ guid = NoGuid
    /\ i = 0
    /\ statusData = NoResponse
    /\ verified = "pending"
    /\ outcome = "none"
    /\ report = "none"
    /\ escaped = FALSE
    /\ graceWaits = 0
    /\ submissions = 0
    /\ backoffs = 0
    /\ pollWaits = 0
    /\ polls = 0
    /\ polledGuid = NoGuid
    /\ submitLog = <<>>
    /\ pendingSeen = 0
    /\ netFailure = "none"
    /\ bytecode = <<>>
    /\ metadata = [t |-> "unset"]
    /\ decoded = FALSE
    /\ prefixedMetadata = [t |-> "unset"]
    /\ compilerVersion = [t |-> "unset"]
    /\ prefixedVersion = [t |-> "unset"]
    /\ tokenConfig = NoConfig
    /\ compilePath = "none"
    /\ artifactOptimizer = [t |-> "unset"]
    /\ deployedArgs = <<>>
    /\ payload = [t |-> "unset"]
    /\ vmPc = "idle"
    /\ deployedCode = [t |-> "unset"]
    /\ calls = <<>>
    /\ settleOrder = <<>>
    /\ allPromise = [state |-> "none"]
    /\ functionality = [t |-> "unset"]
    /\ raised = FALSE
    /\ verificationResult = NewResult
    /\ reportStatus = "none"
    /\ ToolOff
    /\ CompilerIdle

\* the developer changes contracts/Token.sol
EditSource ==
    /\ sourceVersion < MaxVersions
    /\ sourceVersion' = sourceVersion + 1
    /\ UNCHANGED <<buildFile, compiled, requested, protoVars, metaVars,
                   buildVars, vmVars, toolVars>>

\* deploy.js line 27, compile.js lines 417-527: compile(contractFile,
\* targetContract) for one of the file's contracts
CompileContract ==
    /\ \E targetContract \in Contracts,
          working \in SUBSET {"solc", "solcjs", "programmatic"} :
         /\ requested' = Artifact(targetContract, sourceVersion)
         /\ compiled' = compileResult(buildFile, targetContract,
                                      sourceVersion, working)
         /\ buildFile' = compileWrites(buildFile, targetContract,
                                       sourceVersion, working)
    /\ UNCHANGED <<sourceVersion, protoVars, metaVars, buildVars, vmVars,
                   toolVars>>

NextBuild ==
    \/ EditSource
    \/ CompileContract

SpecBuild == InitBuild /\ [][NextBuild]_vars

----------------------------------------------------------------------------
(* C30: what a successful compile() returns                                *)

CompileSucceeded == compiled # [t |-> "unset"] /\ compiled.success

\* C30: a compile() call that reports success returns the abi and bytecode
\* of the contract it was asked for, compiled from the content the source
\* file had at the call.
C30_ReturnsRequestedArtifact ==
    CompileSucceeded => compiled.artifact = requested

====
